---- MODULE Spec2Model ----
(***************************************************************************)
(* discord-voice-tracker: the in-memory cache (MemoryCache), the           *)
(* CacheManager in front of it, and the VoiceManager / Guild / Config /    *)
(* User operations that read through the cache and write to storage.       *)
(*                                                                         *)
(* Every `await` of an asynchronous VoiceManager method is a point where   *)
(* another pending operation may run, so the read-through and write-       *)
(* invalidate methods are modelled one await at a time.                    *)
(***************************************************************************)
EXTENDS Integers, Sequences, FiniteSets, TLC

(***************************************************************************)
(* Bounds of the model.                                                    *)
(***************************************************************************)
\* operations the callers may start in one behaviour
MaxOps == 3
\* advances of the clock in one behaviour
MaxClock == 3
\* updateUser calls pending at a time
MaxWriters == 1
\* calls of the MemoryCache's methods in one behaviour
MaxCalls == 4

(***************************************************************************)
(* Program constants.                                                      *)
(***************************************************************************)
\* MemoryCache constructor: ttl default (5 minutes)
DefaultTtl == 300000
\* MemoryCache constructor: maxSize default
DefaultMaxSize == 1000
\* CacheManager.setLeaderboard: ttl default (1 minute)
LeaderboardTtl == 60000
\* MemoryCache.init: period of the cleanup timer, also the clock's step here
CleanupPeriod == 60000
\* fallback / default XP per tick ('fixed' strategy, Config.getXpToAdd)
DefaultXp == 5
\* default voice time per tick ('fixed' voice time strategy)
DefaultVoiceTime == 5000
\* VoiceManager.getLeaderboard: default limit
DefaultLimit == 10

\* a missing optional argument (ttl?: number); `ttl || d` treats 0 alike
Undefined == 0

(***************************************************************************)
(* Optional values: null / undefined results.                              *)
(***************************************************************************)
Null == [ok |-> FALSE]
Some(v) == [ok |-> TRUE, v |-> v]

\* f with key k bound to v (Map.set)
MapSet(f, k, v) == [x \in (DOMAIN f) \cup {k} |-> IF x = k THEN v ELSE f[x]]
\* f without key k (Map.delete)
MapDelete(f, k) == [x \in (DOMAIN f) \ {k} |-> f[x]]
EmptyMap == [x \in {} |-> 0]

(***************************************************************************)
(* MemoryCache (the Engine).  A MemoryCache object is a record             *)
(*   cache, accessOrder : Map<string, ...>                                 *)
(*   accessCounter, stats, config                                          *)
(*   cleanupInterval : handle of the timer init() made last (0: none)      *)
(*   timers : the interval timers that are running                         *)
(*   timerSeq : the handles handed out so far                              *)
(***************************************************************************)
MemoryCache_new(ttl, maxSize, enableStats) ==
  [ cache |-> EmptyMap,
    accessOrder |-> EmptyMap,
    config |-> [ ttl |-> IF ttl # 0 THEN ttl ELSE DefaultTtl,
                 maxSize |-> IF maxSize # 0 THEN maxSize ELSE DefaultMaxSize,
                 enableStats |-> enableStats ],
    stats |-> [ hits |-> 0, misses |-> 0, sets |-> 0, deletes |-> 0,
                size |-> 0, hitRate |-> [num |-> 0, den |-> 1] ],
    accessCounter |-> 0,
    cleanupInterval |-> 0,
    timers |-> {},
    timerSeq |-> 0 ]

MemoryCache_init(mc) ==
  [mc EXCEPT !.cleanupInterval = mc.timerSeq + 1,
             !.timers = mc.timers \cup {mc.timerSeq + 1},
             !.timerSeq = mc.timerSeq + 1]

\* updateHitRate that leaves the rate as it was
HitRateStale(stats) == stats

\* hitRate = hits / (hits + misses), kept as a fraction
updateHitRate(stats) ==
  LET total == stats.hits + stats.misses
  IN  [stats EXCEPT !.hitRate = IF total > 0 THEN [num |-> stats.hits, den |-> total]
                                             ELSE [num |-> 0, den |-> 1]]

\* an expiry test under which no entry ever expires
NeverExpired(entry, t) == FALSE

\* the expiry test of get and cleanup: Date.now() > entry.expiresAt
Expired(entry, t) == t > entry.expiresAt

\* get: [mc |-> the cache afterwards, ret |-> the value or Null]
\* get that records the access without advancing the counter
GetWithoutCount(mc, key, t) ==
  IF key \notin DOMAIN mc.cache \/ Expired(mc.cache[key], t)
  THEN [mc |-> mc, ret |-> Null]
  ELSE [ mc |-> [mc EXCEPT !.accessOrder = MapSet(mc.accessOrder, key, mc.accessCounter)],
         ret |-> Some(mc.cache[key].value) ]

MemoryCache_get(mc, key, t) ==
  IF key \notin DOMAIN mc.cache
  THEN [ mc |-> IF mc.config.enableStats
                THEN [mc EXCEPT !.stats = updateHitRate([mc.stats EXCEPT !.misses = @ + 1])]
                ELSE mc,
         ret |-> Null ]
  ELSE IF Expired(mc.cache[key], t)
  THEN LET c1 == MapDelete(mc.cache, key)
           m1 == [mc EXCEPT !.cache = c1, !.accessOrder = MapDelete(mc.accessOrder, key)]
       IN  [ mc |-> IF mc.config.enableStats
                    THEN [m1 EXCEPT !.stats = updateHitRate(
                            [mc.stats EXCEPT !.misses = @ + 1, !.size = Cardinality(DOMAIN c1)])]
                    ELSE m1,
             ret |-> Null ]
  ELSE LET m1 == [mc EXCEPT !.accessOrder = MapSet(mc.accessOrder, key, mc.accessCounter),
                            !.accessCounter = @ + 1]
       IN  [ mc |-> IF mc.config.enableStats
                    THEN [m1 EXCEPT !.stats = updateHitRate([mc.stats EXCEPT !.hits = @ + 1])]
                    ELSE m1,
             ret |-> Some(mc.cache[key].value) ]

\* the key with the smallest access counter leaves the cache, when
\* `if (oldestKey)` finds it truthy: the empty string is not
evictLRU(mc) ==
  IF DOMAIN mc.accessOrder = {} THEN mc
  ELSE LET oldestKey == CHOOSE k \in DOMAIN mc.accessOrder :
                          \A j \in DOMAIN mc.accessOrder : mc.accessOrder[k] <= mc.accessOrder[j]
       IN  IF oldestKey # ""
           THEN [mc EXCEPT !.cache = MapDelete(mc.cache, oldestKey),
                           !.accessOrder = MapDelete(mc.accessOrder, oldestKey)]
           ELSE mc

\* set that evicts whenever the store is full, also for a key it holds
SetEvictingWhenFull(mc, key, value, ttl, t) ==
  LET expiresAt == t + (IF ttl # 0 THEN ttl ELSE mc.config.ttl)
      m0 == IF Cardinality(DOMAIN mc.cache) >= mc.config.maxSize THEN evictLRU(mc) ELSE mc
      c1 == MapSet(m0.cache, key, [value |-> value, expiresAt |-> expiresAt])
      m1 == [m0 EXCEPT !.cache = c1,
                       !.accessOrder = MapSet(m0.accessOrder, key, m0.accessCounter),
                       !.accessCounter = @ + 1]
  IN  IF mc.config.enableStats
      THEN [m1 EXCEPT !.stats = [mc.stats EXCEPT !.sets = @ + 1, !.size = Cardinality(DOMAIN c1)]]
      ELSE m1

MemoryCache_set(mc, key, value, ttl, t) ==
  LET expiresAt == t + (IF ttl # 0 THEN ttl ELSE mc.config.ttl)
      m0 == IF Cardinality(DOMAIN mc.cache) >= mc.config.maxSize /\ key \notin DOMAIN mc.cache
            THEN evictLRU(mc) ELSE mc
      c1 == MapSet(m0.cache, key, [value |-> value, expiresAt |-> expiresAt])
      m1 == [m0 EXCEPT !.cache = c1,
                       !.accessOrder = MapSet(m0.accessOrder, key, m0.accessCounter),
                       !.accessCounter = @ + 1]
  IN  IF mc.config.enableStats
      THEN [m1 EXCEPT !.stats = [mc.stats EXCEPT !.sets = @ + 1, !.size = Cardinality(DOMAIN c1)]]
      ELSE m1

\* delete that counts only the keys it finds
DeleteCountingFound(mc, key) ==
  LET c1 == MapDelete(mc.cache, key)
      m1 == [mc EXCEPT !.cache = c1, !.accessOrder = MapDelete(mc.accessOrder, key)]
  IN  IF mc.config.enableStats /\ key \in DOMAIN mc.cache
      THEN [m1 EXCEPT !.stats = [mc.stats EXCEPT !.deletes = @ + 1, !.size = Cardinality(DOMAIN c1)]]
      ELSE m1

MemoryCache_delete(mc, key) ==
  LET c1 == MapDelete(mc.cache, key)
      m1 == [mc EXCEPT !.cache = c1, !.accessOrder = MapDelete(mc.accessOrder, key)]
  IN  IF mc.config.enableStats
      THEN [m1 EXCEPT !.stats = [mc.stats EXCEPT !.deletes = @ + 1, !.size = Cardinality(DOMAIN c1)]]
      ELSE m1

\* a sweep that also removes the entries that expire at the time of the pass
CleanupAtExpiry(mc, t) ==
  LET keysToDelete == {k \in DOMAIN mc.cache : t >= mc.cache[k].expiresAt}
  IN  [mc EXCEPT !.cache = [k \in (DOMAIN mc.cache) \ keysToDelete |-> mc.cache[k]],
                 !.accessOrder = [k \in (DOMAIN mc.accessOrder) \ keysToDelete |-> mc.accessOrder[k]]]

\* a sweep that removes the expired entries from the cache only
CleanupLeavingLedger(mc, t) ==
  [mc EXCEPT !.cache = [k \in {k \in DOMAIN mc.cache : ~Expired(mc.cache[k], t)} |-> mc.cache[k]]]

\* the periodic sweep: every entry with now > expiresAt leaves the cache
cleanup(mc, t) ==
  LET keysToDelete == {k \in DOMAIN mc.cache : Expired(mc.cache[k], t)}
      c1 == [k \in (DOMAIN mc.cache) \ keysToDelete |-> mc.cache[k]]
      m1 == [mc EXCEPT !.cache = c1,
                       !.accessOrder = [k \in (DOMAIN mc.accessOrder) \ keysToDelete |-> mc.accessOrder[k]]]
  IN  IF mc.config.enableStats
      THEN [m1 EXCEPT !.stats = [mc.stats EXCEPT !.size = Cardinality(DOMAIN c1)]]
      ELSE m1

\* clear that starts the statistics afresh as well
ClearResettingStats(mc) ==
  [mc EXCEPT !.cache = EmptyMap, !.accessOrder = EmptyMap, !.accessCounter = 0,
             !.stats = [ hits |-> 0, misses |-> 0, sets |-> 0, deletes |-> 0,
                         size |-> 0, hitRate |-> [num |-> 0, den |-> 1] ]]

MemoryCache_clear(mc) ==
  LET m1 == [mc EXCEPT !.cache = EmptyMap, !.accessOrder = EmptyMap, !.accessCounter = 0]
  IN  IF mc.config.enableStats THEN [m1 EXCEPT !.stats.size = 0] ELSE m1

\* has done as a get: the lookup is counted and the key is touched
HasAsGet(mc, key, t) ==
  LET r == MemoryCache_get(mc, key, t)
  IN  [mc |-> r.mc, ret |-> r.ret.ok]

\* has: [mc |-> the cache afterwards, ret |-> BOOLEAN]; no statistics
MemoryCache_has(mc, key, t) ==
  IF key \notin DOMAIN mc.cache THEN [mc |-> mc, ret |-> FALSE]
  ELSE IF Expired(mc.cache[key], t)
  THEN [ mc |-> [mc EXCEPT !.cache = MapDelete(mc.cache, key),
                           !.accessOrder = MapDelete(mc.accessOrder, key)],
         ret |-> FALSE ]
  ELSE [mc |-> mc, ret |-> TRUE]

\* mget: keys.map(key => this.get(key)); get has no await, so the gets run
\* one after the other in the order of keys, each on the cache the one
\* before it left.  [mc |-> the cache afterwards, ret |-> the results]
RECURSIVE MgetUpTo(_, _, _, _)
MgetUpTo(mc, keys, t, i) ==
  IF i = 0 THEN [mc |-> mc, ret |-> <<>>]
  ELSE LET before == MgetUpTo(mc, keys, t, i - 1)
           r == MemoryCache_get(before.mc, keys[i], t)
       IN  [mc |-> r.mc, ret |-> Append(before.ret, r.ret)]

MemoryCache_mget(mc, keys, t) == MgetUpTo(mc, keys, t, Len(keys))

\* mset: for (const [key, value] of entries) await this.set(key, value, ttl);
\* set has no await, so only continuations that are already pending could
\* run between two sets, no timer
RECURSIVE MsetUpTo(_, _, _, _, _)
MsetUpTo(mc, entries, ttl, t, i) ==
  IF i = 0 THEN mc
  ELSE MemoryCache_set(MsetUpTo(mc, entries, ttl, t, i - 1), entries[i][1], entries[i][2], ttl, t)

\* mset that does not hand the ttl on to set
MsetWithoutTtl(mc, entries, ttl, t) == MsetUpTo(mc, entries, Undefined, t, Len(entries))

MemoryCache_mset(mc, entries, ttl, t) == MsetUpTo(mc, entries, ttl, t, Len(entries))

\* getStats that returns the statistics object itself
GetStatsAliased(mc) == [own |-> FALSE, fields |-> mc.stats]

\* { ...this.stats }: a new object with the fields of the statistics.  An
\* object the caller holds is [own |-> TRUE, fields |-> its fields]; a
\* reference to the statistics object of the cache has own |-> FALSE
MemoryCache_getStats(mc) == [own |-> TRUE, fields |-> mc.stats]

\* clearInterval of the handle init() stored last; the entries are dropped
MemoryCache_close(mc) ==
  [mc EXCEPT !.timers = IF mc.cleanupInterval # 0 THEN mc.timers \ {mc.cleanupInterval} ELSE mc.timers,
             !.cache = EmptyMap,
             !.accessOrder = EmptyMap]

(***************************************************************************)
(* CacheManager (the Coordinator).  A CacheManager object is a record      *)
(*   enabled : BOOLEAN,  cache : the MemoryCache it wraps                  *)
(* Every operation gives [cm |-> the manager afterwards, ret |-> result].  *)
(* Timestamps are milliseconds since the epoch.                            *)
(*                                                                         *)
(* Objects are passed by reference: h is the heap, a function from object  *)
(* ids to objects.  A cached user is the reference that was passed to      *)
(* setUser; a cached guild is a new object that holds the reference of     *)
(* the configuration object and the entries of the users Map.              *)
(***************************************************************************)
\* constructor(cache?): without an adapter cache is null, enabled false
CacheManager_new(cache) == [enabled |-> cache # Null, cache |-> cache]

getGuildKey(guildId) == "guild:" \o guildId

getUserKey(guildId, userId) == "user:" \o guildId \o ":" \o userId

getLeaderboardKey(guildId, sortBy, limit, offset) ==
  "leaderboard:" \o guildId \o ":" \o sortBy \o ":" \o ToString(limit) \o ":" \o ToString(offset)

\* a Date object, and new Date(d) of a Date: a new Date of the same time value
Date(t) == [time |-> t]
NewDate(d) == [time |-> d.time]

\* getGuild that rebuilds no users
GetGuildWithoutUsers(cm, guildId, t) ==
  IF ~cm.enabled THEN [cm |-> cm, ret |-> Null]
  ELSE LET r == MemoryCache_get(cm.cache, getGuildKey(guildId), t)
       IN  [ cm |-> [cm EXCEPT !.cache = r.mc],
             ret |-> IF ~r.ret.ok THEN Null
                     ELSE Some([r.ret.v EXCEPT !.users = EmptyMap,
                                               !.lastUpdated = NewDate(r.ret.v.lastUpdated)]) ]

CacheManager_getGuild(cm, guildId, t) ==
  IF ~cm.enabled THEN [cm |-> cm, ret |-> Null]
  ELSE LET r == MemoryCache_get(cm.cache, getGuildKey(guildId), t)
       IN  [ cm |-> [cm EXCEPT !.cache = r.mc],
             ret |-> IF ~r.ret.ok THEN Null
                     ELSE LET data == r.ret.v
                          IN  Some([data EXCEPT
                                 !.users = [userId \in DOMAIN data.users |-> data.users[userId]],
                                 !.lastUpdated = NewDate(data.lastUpdated)]) ]

CacheManager_setGuild(cm, h, guildData, ttl, t) ==
  IF ~cm.enabled THEN cm
  ELSE LET \* users[userId] = userData on a plain object: the assignment to
           \* "__proto__" sets the prototype of users and adds no property
           users == [userId \in DOMAIN h[guildData.users] \ {"__proto__"} |-> h[guildData.users][userId]]
           cacheData == [guildData EXCEPT !.users = users]
       IN  [cm EXCEPT !.cache = MemoryCache_set(cm.cache, getGuildKey(guildData.guildId), cacheData, ttl, t)]

CacheManager_invalidateGuild(cm, guildId) ==
  IF ~cm.enabled THEN cm
  ELSE [cm EXCEPT !.cache = MemoryCache_delete(cm.cache, getGuildKey(guildId))]

\* a hit returns a new object with the fields of the cached one
\* getUser that never finds the record
GetUserAlwaysMisses(cm, h, guildId, userId, t) == [cm |-> cm, ret |-> Null]

CacheManager_getUser(cm, h, guildId, userId, t) ==
  IF ~cm.enabled THEN [cm |-> cm, ret |-> Null]
  ELSE LET r == MemoryCache_get(cm.cache, getUserKey(guildId, userId), t)
       IN  [ cm |-> [cm EXCEPT !.cache = r.mc],
             ret |-> IF ~r.ret.ok THEN Null
                     ELSE Some([h[r.ret.v] EXCEPT !.lastSeen = NewDate(h[r.ret.v].lastSeen)]) ]

\* userData is a reference; the cache keeps it
CacheManager_setUser(cm, h, userData, ttl, t) ==
  IF ~cm.enabled THEN cm
  ELSE [cm EXCEPT !.cache = MemoryCache_set(cm.cache, getUserKey(h[userData].guildId, h[userData].userId),
                                            userData, ttl, t)]

\* invalidateUser with the delete left out: the key stays in the cache
InvalidateUserSkipped(cm, guildId, userId) == cm

CacheManager_invalidateUser(cm, guildId, userId) ==
  IF ~cm.enabled THEN cm
  ELSE [cm EXCEPT !.cache = MemoryCache_delete(cm.cache, getUserKey(guildId, userId))]

CacheManager_getLeaderboard(cm, guildId, sortBy, limit, offset, t) ==
  IF ~cm.enabled THEN [cm |-> cm, ret |-> Null]
  ELSE LET r == MemoryCache_get(cm.cache, getLeaderboardKey(guildId, sortBy, limit, offset), t)
       IN  [cm |-> [cm EXCEPT !.cache = r.mc], ret |-> r.ret]

\* setLeaderboard that hands its ttl argument on as it is
SetLeaderboardWithEngineDefault(cm, guildId, sortBy, limit, offset, data, ttl, t) ==
  IF ~cm.enabled THEN cm
  ELSE [cm EXCEPT !.cache = MemoryCache_set(cm.cache, getLeaderboardKey(guildId, sortBy, limit, offset),
                                            data, ttl, t)]

CacheManager_setLeaderboard(cm, guildId, sortBy, limit, offset, data, ttl, t) ==
  IF ~cm.enabled THEN cm
  ELSE [cm EXCEPT !.cache = MemoryCache_set(cm.cache, getLeaderboardKey(guildId, sortBy, limit, offset),
                                            data, IF ttl # 0 THEN ttl ELSE LeaderboardTtl, t)]

\* permutations with the page size 25 left out, and with pages at
\* offset 10 deleted too
LimitsWithout25 == <<10, 50, 100>>
OffsetsZeroAndTen == <<0, 10>>

\* the permutations invalidateLeaderboards deletes
sortBys == <<"voiceTime", "xp", "level">>
limits == <<10, 25, 50, 100>>
offsets == <<0>>

\* the keys of the three nested loops, in the order of the loops
LeaderboardPermutations(guildId) ==
  [i \in 1..(Len(sortBys) * Len(limits) * Len(offsets)) |->
     LET n == i - 1
         o == (n % Len(offsets)) + 1
         l == ((n \div Len(offsets)) % Len(limits)) + 1
         s == (n \div (Len(offsets) * Len(limits))) + 1
     IN  getLeaderboardKey(guildId, sortBys[s], limits[l], offsets[o])]

\* cache.delete of each key of a list, one after the other
RECURSIVE DeleteEach(_, _)
DeleteEach(mc, keys) ==
  IF keys = <<>> THEN mc ELSE DeleteEach(MemoryCache_delete(mc, Head(keys)), Tail(keys))

CacheManager_invalidateLeaderboards(cm, guildId) ==
  IF ~cm.enabled THEN cm
  ELSE [cm EXCEPT !.cache = DeleteEach(cm.cache, LeaderboardPermutations(guildId))]

(***************************************************************************)
(* The adapter may be any CacheAdapter, and its methods may throw.  fault  *)
(* says that the adapter method a call reaches throws; it throws before    *)
(* it changes anything.  A method called on a missing adapter (null)       *)
(* throws a TypeError.  A call gives                                       *)
(*   [cm |-> the manager afterwards, ret |-> result, threw |-> BOOLEAN].   *)
(***************************************************************************)
Returned(cm, ret) == [cm |-> cm, ret |-> ret, threw |-> FALSE]
Thrown(cm) == [cm |-> cm, ret |-> Null, threw |-> TRUE]

AdapterThrows(cm, fault) == cm.cache = Null \/ fault

\* try { r } catch { return caught }: r is what the body gives when the
\* adapter does not throw; the body reaches the adapter when enabled
TryCatch(cm, fault, r, caught) ==
  IF cm.enabled /\ AdapterThrows(cm, fault) THEN Returned(cm, caught) ELSE r

\* invalidateLeaderboards: a delete that throws is skipped, the loop goes on
RECURSIVE DeleteEachCaught(_, _, _)
DeleteEachCaught(mc, keys, failing) ==
  IF keys = <<>> THEN mc
  ELSE DeleteEachCaught(IF Head(keys) \in failing THEN mc ELSE MemoryCache_delete(mc, Head(keys)),
                        Tail(keys), failing)

CacheManager_init(cm, fault) ==
  IF cm.enabled /\ cm.cache # Null
  THEN IF AdapterThrows(cm, fault) THEN Thrown(cm)
       ELSE Returned([cm EXCEPT !.cache = MemoryCache_init(cm.cache)], Null)
  ELSE Returned(cm, Null)

\* getStats without the test of enabled
GetStatsUnguarded(cm, fault) ==
  IF AdapterThrows(cm, fault) THEN Thrown(cm)
  ELSE Returned(cm, Some(MemoryCache_getStats(cm.cache)))

\* every adapter of this model has a getStats method
CacheManager_getStats(cm, fault) ==
  IF ~cm.enabled THEN Returned(cm, Null)
  ELSE IF AdapterThrows(cm, fault) THEN Thrown(cm)
  ELSE Returned(cm, Some(MemoryCache_getStats(cm.cache)))

CacheManager_clear(cm, fault) ==
  IF ~cm.enabled THEN Returned(cm, Null)
  ELSE IF AdapterThrows(cm, fault) THEN Thrown(cm)
  ELSE Returned([cm EXCEPT !.cache = MemoryCache_clear(cm.cache)], Null)

CacheManager_close(cm, fault) ==
  IF ~cm.enabled THEN Returned(cm, Null)
  ELSE IF AdapterThrows(cm, fault) THEN Thrown(cm)
  ELSE Returned([cm EXCEPT !.cache = MemoryCache_close(cm.cache)], Null)

(***************************************************************************)
(* Levels.  A level multiplier is kept in hundredths (0.1 is 10), so       *)
(* floor(multiplier * sqrt(xp)) is the largest L with                      *)
(* (100 L)^2 <= multiplier^2 * xp.                                         *)
(***************************************************************************)
RECURSIVE LevelFrom(_, _, _)
LevelFrom(l, xp, mult) ==
  IF (100 * (l + 1)) * (100 * (l + 1)) <= mult * mult * xp THEN LevelFrom(l + 1, xp, mult) ELSE l

calculateLevel(xp, mult) == LevelFrom(0, xp, mult)

\* a field of a configuration object that may lack it (undefined)
Field(obj, name, dflt) == IF name \in DOMAIN obj THEN obj[name] ELSE dflt

\* the built-in level multiplier strategies, and Config.getLevelMultiplier
getLevelMultiplier(config) ==
  LET name == Field(config, "levelMultiplierStrategy", "standard")
  IN  IF name = "fast" THEN 15
      ELSE IF name = "slow" THEN 5
      ELSE 10

\* the built-in 'fixed' XP strategy through Config.getXpToAdd
getXpToAdd(config) ==
  LET xp == Field(Field(config, "xpConfig", EmptyMap), "baseAmount", 0)
  IN  IF xp # 0 THEN xp ELSE DefaultXp

\* the built-in 'fixed' voice time strategy through Config.getVoiceTimeToAdd
getVoiceTimeToAdd(config) ==
  LET time == Field(Field(config, "voiceTimeConfig", EmptyMap), "baseAmount", 0)
  IN  IF time # 0 THEN time ELSE DefaultVoiceTime

(***************************************************************************)
(* Objects.  The heap is a function from object ids to objects; a          *)
(* reference is an object id.                                              *)
(***************************************************************************)
\* the id of a new object
New(h) == CHOOSE o \in 1..(Cardinality(DOMAIN h) + 1) :
            o \notin DOMAIN h /\ \A q \in 1..(o - 1) : q \in DOMAIN h

Range(f) == {f[x] : x \in DOMAIN f}

(***************************************************************************)
(* JSONStorage: a Map from guildId to the GuildData object                 *)
(*   [guildId, config, users, lastUpdated, extraData]                      *)
(* config is the reference of the configuration object, users that of a   *)
(* Map object from userId to the reference of the UserData object.  The    *)
(* adapter hands out and keeps the references it is given.                 *)
(***************************************************************************)
Storage_getGuild(st, guildId) == IF guildId \in DOMAIN st THEN Some(st[guildId]) ELSE Null

Storage_saveGuild(st, guildData) == MapSet(st, guildData.guildId, guildData)

Storage_deleteGuild(st, guildId) == MapDelete(st, guildId)

Storage_getUser(st, h, guildId, userId) ==
  IF guildId \notin DOMAIN st THEN Null
  ELSE IF userId \in DOMAIN h[st[guildId].users] THEN Some(h[st[guildId].users][userId]) ELSE Null

\* userData is a reference; gives the storage and the heap afterwards
Storage_saveUser(st, h, guildId, userData, t) ==
  IF guildId \in DOMAIN st
  THEN [ st |-> [st EXCEPT ![guildId].lastUpdated = Date(t)],
         h |-> [h EXCEPT ![st[guildId].users] = MapSet(@, h[userData].userId, userData)] ]
  ELSE LET config == New(h)
           h1 == MapSet(h, config, EmptyMap)
           users == New(h1)
       IN  [ st |-> MapSet(st, guildId, [guildId |-> guildId, config |-> config, users |-> users,
                                         lastUpdated |-> Date(t), extraData |-> {}]),
             h |-> MapSet(h1, users, MapSet(EmptyMap, h[userData].userId, userData)) ]

Storage_deleteUser(st, h, guildId, userId, t) ==
  IF guildId \notin DOMAIN st THEN [st |-> st, h |-> h]
  ELSE [ st |-> [st EXCEPT ![guildId].lastUpdated = Date(t)],
         h |-> [h EXCEPT ![st[guildId].users] = MapDelete(@, userId)] ]

\* the sort key of a user for a leaderboard: b - a of the comparator
SortBefore(a, b, sortBy) ==
  IF sortBy = "voiceTime" THEN a.totalVoiceTime > b.totalVoiceTime
  ELSE IF sortBy = "xp" THEN a.xp > b.xp
  ELSE IF sortBy = "level" THEN a.level > b.level \/ (a.level = b.level /\ a.xp > b.xp)
  ELSE FALSE

\* users sorted as Array.sort does: each time a user no other user comes
\* before; among users the comparator ties, one fixed order
RECURSIVE SortUsers(_, _)
SortUsers(users, sortBy) ==
  IF DOMAIN users = {} THEN <<>>
  ELSE LET first == CHOOSE u \in DOMAIN users :
                      \A w \in DOMAIN users : ~SortBefore(users[w], users[u], sortBy)
       IN  <<users[first]>> \o SortUsers(MapDelete(users, first), sortBy)

Storage_getLeaderboard(st, h, guildId, sortBy, limit, offset) ==
  IF guildId \notin DOMAIN st THEN <<>>
  ELSE LET users == [u \in DOMAIN h[st[guildId].users] |-> h[h[st[guildId].users][u]]]
           sorted == SortUsers(users, sortBy)
           paginated == SubSeq(sorted, offset + 1,
                               IF offset + limit < Len(sorted) THEN offset + limit ELSE Len(sorted))
       IN  [index \in 1..Len(paginated) |->
              [ userId |-> paginated[index].userId,
                guildId |-> paginated[index].guildId,
                voiceTime |-> paginated[index].totalVoiceTime,
                xp |-> paginated[index].xp,
                level |-> paginated[index].level,
                rank |-> offset + index ]]


(***************************************************************************)
(* The system: a VoiceManager constructed with a MemoryCache and a         *)
(* JSONStorage, after init().                                              *)
(***************************************************************************)
VARIABLES
  now,             \* Date.now()
  cacheManager,    \* VoiceManager.cache
  storage,         \* VoiceManager.storage
  guilds,          \* VoiceManager.guilds: guildId -> the reference of the Guild object
  heap,            \* the objects: Guild objects, configurations, users Maps, UserData
  activeSessions,  \* VoiceManager.activeSessions
  pc,              \* where each pending operation stands
  loc,             \* the local variables of each pending operation
  opsLeft,         \* operations that may still start
  configWrites,    \* history: per guild, the configurations saveGuildConfig wrote, in order
  configReturned,  \* history: per guild, the latest of these writes whose saveGuildConfig returned
  lastDone         \* history: the operation that returned last, until the next one starts

vars == <<now, cacheManager, storage, guilds, heap, activeSessions, pc, loc, opsLeft,
          configWrites, configReturned, lastDone>>

Procs == {1, 2}
Guilds == {"g1"}
Users == {"u1"}
Channel == "ch1"

\* the cache options the manager is constructed with
ConfiguredTtl == 2 * CleanupPeriod
\* xpConfig.baseAmount of the configured guilds
ConfiguredXp == 20 * DefaultXp

\* VoiceManager.getDefaultConfig, with the guild's id (the fields the
\* tracking tick reads; the member and channel filters are the caller's)
getDefaultConfig(guildId) ==
  [ guildId |-> guildId,
    xpStrategy |-> "fixed",
    xpConfig |-> [baseAmount |-> DefaultXp],
    voiceTimeStrategy |-> "fixed",
    voiceTimeConfig |-> [baseAmount |-> DefaultVoiceTime],
    levelMultiplierStrategy |-> "standard",
    enableLeveling |-> TRUE,
    enableVoiceTime |-> TRUE ]

\* a configuration an administrator saved
CustomConfig(guildId) ==
  [getDefaultConfig(guildId) EXCEPT !.xpConfig = [baseAmount |-> ConfiguredXp]]

\* Guild.getOrCreateUser / VoiceManager.createUser: a new user's record
NewUserData(guildId, userId, t) ==
  [ userId |-> userId, guildId |-> guildId, totalVoiceTime |-> 0, xp |-> 0, level |-> 0,
    lastSeen |-> Date(t), streak |-> 0, totalSessions |-> 0, metadata |-> {} ]

\* a user the tracker has followed for a while
SeasonedUserData(guildId, userId) ==
  [ NewUserData(guildId, userId, 0) EXCEPT !.totalVoiceTime = 3 * DefaultVoiceTime,
                                           !.xp = 3 * ConfiguredXp, !.level = 1,
                                           !.totalSessions = 1 ]

\* Guild constructor: the Guild object of a GuildData.  Its Config keeps the
\* reference of the configuration object; its User objects copy the fields
\* of the UserData objects.
NewGuild(h, data) ==
  [ guildId |-> data.guildId, config |-> data.config,
    users |-> [u \in DOMAIN h[data.users] |-> h[h[data.users][u]]],
    extraData |-> data.extraData, lastUpdated |-> data.lastUpdated ]

\* what storage holds when the manager starts, if it holds a guild: the
\* guild with configuration c and a user.  Objects 1 to 3 are the
\* configuration, the UserData and the users Map.
StoredGuild(g) ==
  [guildId |-> g, config |-> 1, users |-> 3, lastUpdated |-> Date(0), extraData |-> {}]

StoredObjects(g, c) ==
  [o \in 1..3 |-> IF o = 1 THEN c ELSE IF o = 2 THEN SeasonedUserData(g, "u1") ELSE [u \in Users |-> 2]]

Idle == [op |-> "idle"]

\* the locals of an operation that starts; wrote and inval are history:
\* whether it wrote a guild or user record to storage, and the invalidate*
\* calls it made since its last such write
NewOp(op, guildId, userId) ==
  [ op |-> op, guildId |-> guildId, userId |-> userId, stack |-> <<>>,
    wrote |-> FALSE, inval |-> 0, ret |-> Null ]

With(l, more) == more @@ l
Wrote(l) == With(l, [wrote |-> TRUE, inval |-> 0])
Invalidated(l) == With(l, [inval |-> l.inval + 1])

GuildIds == {"g1", "g2"}
GuildKeys == {getGuildKey(g) : g \in GuildIds}
UserKeys == {getUserKey(g, u) : g \in GuildIds, u \in Users}

\* the locals of the operations that hold references: oid a Guild object,
\* userData a UserData, config and retRef a configuration, guildData and
\* existing a GuildData
Held(ls, field) == {ls[p][field] : p \in {p \in Procs : field \in DOMAIN ls[p]}}

\* garbage collection: the objects still reachable from storage st, the
\* cache of cm, the manager's guilds gs or the locals ls of an operation
Collect(h, st, cm, gs, ls) ==
  LET cached == IF cm.enabled THEN cm.cache.cache ELSE EmptyMap
      datas == Range(st) \cup Held(ls, "guildData") \cup {e.v : e \in {e \in Held(ls, "existing") : e.ok}}
      cachedGuilds == {cached[k].value : k \in DOMAIN cached \cap GuildKeys}
      maps == {d.users : d \in datas}
      oids == Range(gs) \cup Held(ls, "oid")
      users == UNION {Range(h[m]) : m \in maps}
               \cup {cached[k].value : k \in DOMAIN cached \cap UserKeys}
               \cup UNION {Range(d.users) : d \in cachedGuilds}
               \cup Held(ls, "userData")
      configs == {d.config : d \in datas} \cup {h[o].config : o \in oids}
                 \cup {d.config : d \in cachedGuilds}
                 \cup Held(ls, "config") \cup Held(ls, "retRef")
  IN  [o \in maps \cup oids \cup users \cup configs |-> h[o]]

\* the heap after a step that leaves it h
Collected(h) == heap' = Collect(h, storage', cacheManager', guilds', loc')

Init ==
  /\ now = 0
  /\ cacheManager = CacheManager_new(MemoryCache_init(MemoryCache_new(ConfiguredTtl, Undefined, FALSE)))
  \* loadGuilds: one Guild object per stored guild
  /\ \/ /\ storage = EmptyMap
        /\ heap = EmptyMap
        /\ guilds = EmptyMap
     \/ \E c \in {getDefaultConfig("g1"), CustomConfig("g1")} :
          LET h == StoredObjects("g1", c)
          IN  /\ storage = [g \in Guilds |-> StoredGuild(g)]
              /\ heap = MapSet(h, 4, NewGuild(h, StoredGuild("g1")))
              /\ guilds = [g \in Guilds |-> 4]
  /\ activeSessions = EmptyMap
  /\ pc = [p \in Procs |-> "idle"]
  /\ loc = [p \in Procs |-> Idle]
  /\ opsLeft = MaxOps
  /\ configWrites = [g \in Guilds |-> <<>>]
  /\ configReturned = [g \in Guilds |-> 0]
  /\ lastDone = Null

\* an operation is pending from its start until it has returned
Pending(q) == pc[q] \notin {"idle", "done"}

\* history: what a finished operation leaves for the operations after it
Outcome(l) ==
  [f \in (DOMAIN l) \cap {"op", "guildId", "userId", "ret", "gained", "gainedXp", "leveledUp",
                           "removed", "lbBefore"}
     |-> l[f]]

\* history: an operation that returns having run alone is the last
\* operation, until the next operation starts
Last(at, l) == IF at = "done" /\ l.alone THEN Some(Outcome(l)) ELSE Null

\* an operation starts: op's first step is at `at`; alone is history,
\* whether no other operation was pending while this one was
Begin(p, at, l) ==
  /\ pc[p] = "idle"
  \* a call takes the first free slot
  /\ \A q \in Procs : q < p => pc[q] # "idle"
  /\ opsLeft > 0
  /\ opsLeft' = opsLeft - 1
  /\ pc' = [pc EXCEPT ![p] = at]
  /\ LET l1 == With(l, [alone |-> \A q \in Procs \ {p} : ~Pending(q)])
     IN  /\ loc' = [q \in Procs |-> IF q = p THEN l1
                                    ELSE IF Pending(q)
                                    THEN With(loc[q], [alone |-> FALSE])
                                    ELSE loc[q]]
         /\ lastDone' = Last(at, l1)

\* a step ends at `at` with locals l
Goto(p, at, l) ==
  /\ pc' = [pc EXCEPT ![p] = at]
  /\ loc' = [loc EXCEPT ![p] = l]
  /\ lastDone' = IF at = "done" THEN Last(at, l) ELSE lastDone

\* an asynchronous method returns: to the method that awaits it, or to the
\* caller of the operation
Finish(p, l) ==
  IF l.stack = <<>> THEN Goto(p, "done", l)
  ELSE Goto(p, Head(l.stack), [l EXCEPT !.stack = Tail(l.stack)])

(***************************************************************************)
(* VoiceManager.getGuildConfig.  ret is history: the fields of the         *)
(* configuration object at the time it is returned; retRef is the          *)
(* returned reference.                                                     *)
(***************************************************************************)
Start_getGuildConfig(p) ==
  \E g \in Guilds :
    /\ Begin(p, "ggc_get", With(NewOp("getGuildConfig", g, ""), [minIdx |-> configReturned[g], prev |-> lastDone]))
    /\ UNCHANGED <<now, cacheManager, storage, guilds, activeSessions, configWrites, configReturned>>
    /\ Collected(heap)

\* history of a cache read: whether the key held an entry past its expiry
SawExpired(key) ==
  /\ key \in DOMAIN cacheManager.cache.cache
  /\ now > cacheManager.cache.cache[key].expiresAt

getGuildConfig_cacheGet(p) ==
  /\ pc[p] = "ggc_get"
  /\ UNCHANGED <<now, storage, guilds, activeSessions, opsLeft, configWrites, configReturned>>
  /\ LET l == loc[p]
         r == CacheManager_getGuild(cacheManager, l.guildId, now)
         l1 == With(l, [hit |-> r.ret.ok, sawExpired |-> SawExpired(getGuildKey(l.guildId))])
     IN  /\ cacheManager' = r.cm
         /\ IF r.ret.ok
            THEN Finish(p, With(l1, [ret |-> Some(heap[r.ret.v.config]), retRef |-> r.ret.v.config]))
            ELSE Goto(p, "ggc_read", l1)
  /\ Collected(heap)

getGuildConfig_storageGet(p) ==
  /\ pc[p] = "ggc_read"
  /\ UNCHANGED <<now, cacheManager, storage, guilds, activeSessions, opsLeft,
                 configWrites, configReturned>>
  /\ LET l == loc[p]
         guildData == Storage_getGuild(storage, l.guildId)
         config == New(heap)
     IN  IF guildData.ok
         THEN /\ Goto(p, "ggc_set", With(l, [guildData |-> guildData.v]))
              /\ Collected(heap)
         ELSE \* the default configuration is saved, then returned
              /\ Goto(p, "sgc_read", With(l, [config |-> config, stack |-> <<"ggc_ret">> \o l.stack]))
              /\ Collected(MapSet(heap, config, getDefaultConfig(l.guildId)))

getGuildConfig_cacheSet(p) ==
  /\ pc[p] = "ggc_set"
  /\ UNCHANGED <<now, storage, guilds, activeSessions, opsLeft, configWrites, configReturned>>
  /\ LET l == loc[p]
     IN  /\ cacheManager' = CacheManager_setGuild(cacheManager, heap, l.guildData, Undefined, now)
         /\ Finish(p, With(l, [ret |-> Some(heap[l.guildData.config]), retRef |-> l.guildData.config]))
  /\ Collected(heap)

getGuildConfig_return(p) ==
  /\ pc[p] = "ggc_ret"
  /\ UNCHANGED <<now, cacheManager, storage, guilds, activeSessions, opsLeft,
                 configWrites, configReturned>>
  /\ Finish(p, With(loc[p], [ret |-> Some(heap[loc[p].config]), retRef |-> loc[p].config]))
  /\ Collected(heap)

(***************************************************************************)
(* VoiceManager.saveGuildConfig.  The caller passes a configuration        *)
(* object of its own.                                                      *)
(***************************************************************************)
Start_saveGuildConfig(p) ==
  \E g \in Guilds : \E c \in {getDefaultConfig(g), CustomConfig(g)} :
    /\ Begin(p, "sgc_read", With(NewOp("saveGuildConfig", g, ""), [config |-> New(heap)]))
    /\ UNCHANGED <<now, cacheManager, storage, guilds, activeSessions, configWrites, configReturned>>
    /\ Collected(MapSet(heap, New(heap), c))

saveGuildConfig_storageGet(p) ==
  /\ pc[p] = "sgc_read"
  /\ UNCHANGED <<now, cacheManager, storage, guilds, activeSessions, opsLeft,
                 configWrites, configReturned>>
  /\ Goto(p, "sgc_save", With(loc[p], [existing |-> Storage_getGuild(storage, loc[p].guildId)]))
  /\ Collected(heap)

\* the record saved keeps the users Map of the record read, or gets a new one
saveGuildConfig_storageSave(p) ==
  /\ pc[p] = "sgc_save"
  /\ UNCHANGED <<now, cacheManager, guilds, activeSessions, opsLeft, configReturned>>
  /\ LET l == loc[p]
         h == IF l.existing.ok THEN heap ELSE MapSet(heap, New(heap), EmptyMap)
         guildData == [ guildId |-> l.guildId,
                        config |-> l.config,
                        users |-> IF l.existing.ok THEN l.existing.v.users ELSE New(heap),
                        lastUpdated |-> Date(now),
                        extraData |-> IF l.existing.ok THEN l.existing.v.extraData ELSE {} ]
     IN  /\ storage' = Storage_saveGuild(storage, guildData)
         /\ configWrites' = [configWrites EXCEPT ![l.guildId] = Append(@, heap[l.config])]
         /\ Goto(p, "sgc_inval", With(Wrote(l), [widx |-> Len(configWrites[l.guildId]) + 1]))
         /\ Collected(h)

saveGuildConfig_invalidate(p) ==
  /\ pc[p] = "sgc_inval"
  /\ UNCHANGED <<now, storage, guilds, activeSessions, opsLeft, configWrites>>
  /\ LET l == loc[p]
     IN  /\ cacheManager' = CacheManager_invalidateGuild(cacheManager, l.guildId)
         /\ configReturned' = [configReturned EXCEPT ![l.guildId] = IF l.widx > @ THEN l.widx ELSE @]
         /\ Finish(p, Invalidated(l))
  /\ Collected(heap)

(***************************************************************************)
(* The caller takes the result; the clock; the cleanup timer.              *)
(***************************************************************************)
Return(p) ==
  /\ pc[p] = "done"
  /\ pc' = [pc EXCEPT ![p] = "idle"]
  /\ loc' = [loc EXCEPT ![p] = Idle]
  /\ UNCHANGED <<now, cacheManager, storage, guilds, activeSessions, opsLeft,
                 configWrites, configReturned, lastDone>>
  /\ Collected(heap)

ClockAdvance ==
  /\ now < MaxClock * CleanupPeriod
  /\ now' = now + CleanupPeriod
  /\ UNCHANGED <<cacheManager, storage, guilds, heap, activeSessions, pc, loc, opsLeft,
                 configWrites, configReturned, lastDone>>

\* the interval timer of MemoryCache.init fires
CleanupTimer ==
  /\ cacheManager.cache.timers # {}
  /\ cacheManager' = [cacheManager EXCEPT !.cache = cleanup(cacheManager.cache, now)]
  /\ UNCHANGED <<now, storage, guilds, activeSessions, pc, loc, opsLeft,
                 configWrites, configReturned, lastDone>>
  /\ Collected(heap)

(***************************************************************************)
(* VoiceManager.getUser.  ret is history: the fields of the returned       *)
(* object at the time it is returned.                                      *)
(***************************************************************************)
GetUserSteps == {"gu_get", "gu_read", "gu_set"}

\* history of a call: prev, the operation that returned last; conc, the
\* getUser calls of the same user that are pending when it starts
Start_getUser(p) ==
  \E g \in Guilds : \E u \in Users :
    /\ Begin(p, "gu_get",
             With(NewOp("getUser", g, u),
                  [ prev |-> lastDone,
                    conc |-> {q \in Procs : pc[q] \in GetUserSteps /\ loc[q].guildId = g
                                            /\ loc[q].userId = u} ]))
    /\ UNCHANGED <<now, cacheManager, storage, guilds, activeSessions, configWrites, configReturned>>
    /\ Collected(heap)

getUser_cacheGet(p) ==
  /\ pc[p] = "gu_get"
  /\ UNCHANGED <<now, storage, guilds, activeSessions, opsLeft, configWrites, configReturned>>
  /\ LET l == loc[p]
         r == CacheManager_getUser(cacheManager, heap, l.guildId, l.userId, now)
         l1 == With(l, [hit |-> r.ret.ok, sawExpired |-> SawExpired(getUserKey(l.guildId, l.userId))])
     IN  /\ cacheManager' = r.cm
         /\ IF r.ret.ok
            THEN Finish(p, With(l1, [ret |-> r.ret]))
            ELSE Goto(p, "gu_read", l1)
  /\ Collected(heap)

getUser_storageGet(p) ==
  /\ pc[p] = "gu_read"
  /\ UNCHANGED <<now, cacheManager, storage, guilds, activeSessions, opsLeft,
                 configWrites, configReturned>>
  /\ LET l == loc[p]
         userData == Storage_getUser(storage, heap, l.guildId, l.userId)
     IN  IF userData.ok
         THEN Goto(p, "gu_set", With(l, [userData |-> userData.v]))
         ELSE Finish(p, With(l, [ret |-> Null]))
  /\ Collected(heap)

getUser_cacheSet(p) ==
  /\ pc[p] = "gu_set"
  /\ UNCHANGED <<now, storage, guilds, activeSessions, opsLeft, configWrites, configReturned>>
  /\ LET l == loc[p]
     IN  /\ cacheManager' = CacheManager_setUser(cacheManager, heap, l.userData, Undefined, now)
         /\ Finish(p, With(l, [ret |-> Some(heap[l.userData]), wroteBack |-> TRUE]))
  /\ Collected(heap)

(***************************************************************************)
(* VoiceManager.updateUser.  It changes the UserData object it got from    *)
(* storage (or created) in place, across the await of the level            *)
(* multiplier, then saves it.  ret is history: the fields of the returned  *)
(* object at the time it is returned.                                      *)
(***************************************************************************)
\* the UserUpdateOptions the callers pass: each option given or not
AllUpdateOptions ==
  [addVoiceTime |-> DefaultVoiceTime, addXp |-> ConfiguredXp, setLevel |-> 2, metadata |-> {"note"}]

UpdateOptions ==
  { [n \in names |-> AllUpdateOptions[n]] :
      names \in SUBSET {"addVoiceTime", "addXp", "setLevel", "metadata"} }
  \cup {[addXp |-> 0]}

UpdateUserSteps == {"uu_read", "uu_create", "uu_apply", "uu_level", "uu_inval"}

Start_updateUser(p) ==
  \E g \in Guilds : \E u \in Users : \E options \in UpdateOptions :
    /\ Cardinality({q \in Procs : pc[q] \in UpdateUserSteps}) < MaxWriters
    /\ Begin(p, "uu_read", With(NewOp("updateUser", g, u), [options |-> options]))
    /\ UNCHANGED <<now, cacheManager, storage, guilds, activeSessions, configWrites, configReturned>>
    /\ Collected(heap)

updateUser_storageGet(p) ==
  /\ pc[p] = "uu_read"
  /\ UNCHANGED <<now, cacheManager, storage, guilds, activeSessions, opsLeft,
                 configWrites, configReturned>>
  /\ LET l == loc[p]
         userData == Storage_getUser(storage, heap, l.guildId, l.userId)
     IN  IF userData.ok
         THEN Goto(p, "uu_apply", With(l, [userData |-> userData.v, created |-> FALSE]))
         ELSE Goto(p, "uu_create", l)
  /\ Collected(heap)

\* VoiceManager.createUser
updateUser_createUser(p) ==
  /\ pc[p] = "uu_create"
  /\ UNCHANGED <<now, cacheManager, guilds, activeSessions, opsLeft, configWrites, configReturned>>
  /\ LET l == loc[p]
         userData == New(heap)
         s == Storage_saveUser(storage, MapSet(heap, userData, NewUserData(l.guildId, l.userId, now)),
                               l.guildId, userData, now)
     IN  /\ storage' = s.st
         /\ Goto(p, "uu_apply", With(Wrote(l), [userData |-> userData, created |-> TRUE]))
         /\ Collected(s.h)

\* options.addVoiceTime and the first half of options.addXp
ApplyGains(userData, options) ==
  [userData EXCEPT !.totalVoiceTime = @ + Field(options, "addVoiceTime", 0),
                   !.xp = @ + Field(options, "addXp", 0)]

\* the second half of options.addXp, with the multiplier of the guild
ApplyLevel(userData, multiplier) ==
  LET newLevel == calculateLevel(userData.xp, multiplier)
  IN  IF newLevel > userData.level THEN [userData EXCEPT !.level = newLevel] ELSE userData

\* options.setLevel and options.metadata
ApplyRest(userData, options) ==
  LET u1 == IF "setLevel" \in DOMAIN options THEN [userData EXCEPT !.level = options.setLevel]
            ELSE userData
  IN  IF "metadata" \in DOMAIN options /\ options.metadata # {}
      THEN [u1 EXCEPT !.metadata = @ \cup options.metadata] ELSE u1

\* the end of updateUser's changes: the object is saved
updateUser_save(p, l, h) ==
  LET s == Storage_saveUser(storage, [h EXCEPT ![l.userData] = ApplyRest(@, l.options)],
                            l.guildId, l.userData, now)
  IN  /\ storage' = s.st
      /\ Goto(p, "uu_inval", Wrote(l))
      /\ Collected(s.h)

updateUser_apply(p) ==
  /\ pc[p] = "uu_apply"
  /\ UNCHANGED <<now, cacheManager, guilds, activeSessions, opsLeft, configWrites, configReturned>>
  /\ LET l == loc[p]
         h == [heap EXCEPT ![l.userData] = ApplyGains(@, l.options)]
     IN  IF Field(l.options, "addXp", 0) # 0 /\ l.guildId \in DOMAIN guilds
         THEN \* await guild.config.getLevelMultiplier()
              /\ storage' = storage
              /\ Goto(p, "uu_level",
                      With(l, [multiplier |-> getLevelMultiplier(heap[heap[guilds[l.guildId]].config])]))
              /\ Collected(h)
         ELSE updateUser_save(p, l, h)

updateUser_level(p) ==
  /\ pc[p] = "uu_level"
  /\ UNCHANGED <<now, cacheManager, guilds, activeSessions, opsLeft, configWrites, configReturned>>
  /\ LET l == loc[p]
     IN  updateUser_save(p, l, [heap EXCEPT ![l.userData] = ApplyLevel(@, l.multiplier)])

updateUser_invalidate(p) ==
  /\ pc[p] = "uu_inval"
  /\ UNCHANGED <<now, storage, guilds, activeSessions, opsLeft, configWrites, configReturned>>
  /\ LET l == loc[p]
     IN  /\ cacheManager' = CacheManager_invalidateUser(cacheManager, l.guildId, l.userId)
         /\ Finish(p, With(Invalidated(l),
                           [ret |-> Some(heap[l.userData]),
                            removed |-> DOMAIN cacheManager.cache.cache \ DOMAIN cacheManager'.cache.cache]))
  /\ Collected(heap)

(***************************************************************************)
(* VoiceManager.getLeaderboard                                             *)
(***************************************************************************)
\* the LeaderboardOptions the callers pass
LeaderboardQueries == { EmptyMap, [limit |-> 5], [sortBy |-> "level", limit |-> 25] }

Start_getLeaderboard(p) ==
  \E g \in Guilds : \E options \in LeaderboardQueries :
    /\ Begin(p, "gl_get",
             With(NewOp("getLeaderboard", g, ""),
                  [ prev |-> lastDone,
                    options |-> options,
                    sortBy |-> Field(options, "sortBy", "xp"),
                    limit |-> IF Field(options, "limit", 0) # 0 THEN options.limit ELSE DefaultLimit,
                    offset |-> Field(options, "offset", 0) ]))
    /\ UNCHANGED <<now, cacheManager, storage, guilds, activeSessions, configWrites, configReturned>>
    /\ Collected(heap)

getLeaderboard_cacheGet(p) ==
  /\ pc[p] = "gl_get"
  /\ UNCHANGED <<now, storage, guilds, activeSessions, opsLeft, configWrites, configReturned>>
  /\ LET l == loc[p]
         r == CacheManager_getLeaderboard(cacheManager, l.guildId, l.sortBy, l.limit, l.offset, now)
         l1 == With(l, [hit |-> r.ret.ok,
                        sawExpired |-> SawExpired(getLeaderboardKey(l.guildId, l.sortBy, l.limit, l.offset))])
     IN  /\ cacheManager' = r.cm
         /\ IF r.ret.ok
            THEN Finish(p, With(l1, [ret |-> r.ret]))
            ELSE Goto(p, "gl_read", l1)
  /\ Collected(heap)

\* getLeaderboard that caches the page whatever its length
StorageGetCachingEmpty(p) ==
  /\ pc[p] = "gl_read"
  /\ UNCHANGED <<now, cacheManager, storage, guilds, activeSessions, opsLeft,
                 configWrites, configReturned>>
  /\ LET l == loc[p]
         leaderboard == Storage_getLeaderboard(storage, heap, l.guildId, l.sortBy, l.limit, l.offset)
     IN  Goto(p, "gl_set", With(l, [data |-> Some(leaderboard)]))
  /\ Collected(heap)

getLeaderboard_storageGet(p) ==
  /\ pc[p] = "gl_read"
  /\ UNCHANGED <<now, cacheManager, storage, guilds, activeSessions, opsLeft,
                 configWrites, configReturned>>
  /\ LET l == loc[p]
         leaderboard == Storage_getLeaderboard(storage, heap, l.guildId, l.sortBy, l.limit, l.offset)
     IN  IF Len(leaderboard) > 0
         THEN Goto(p, "gl_set", With(l, [data |-> Some(leaderboard)]))
         ELSE Finish(p, With(l, [data |-> Some(leaderboard), ret |-> Some(leaderboard)]))
  /\ Collected(heap)

getLeaderboard_cacheSet(p) ==
  /\ pc[p] = "gl_set"
  /\ UNCHANGED <<now, storage, guilds, activeSessions, opsLeft, configWrites, configReturned>>
  /\ LET l == loc[p]
     IN  /\ cacheManager' = CacheManager_setLeaderboard(cacheManager, l.guildId, l.sortBy, l.limit,
                                                        l.offset, l.data.v, Undefined, now)
         /\ Finish(p, With(l, [ret |-> l.data, wroteBack |-> TRUE]))
  /\ Collected(heap)

(***************************************************************************)
(* VoiceManager.deleteGuild, VoiceManager.deleteUser                       *)
(***************************************************************************)
deleteGuild(p) ==
  \E g \in Guilds :
    /\ Begin(p, "done", Wrote(NewOp("deleteGuild", g, "")))
    /\ storage' = Storage_deleteGuild(storage, g)
    /\ guilds' = MapDelete(guilds, g)
    /\ UNCHANGED <<now, cacheManager, activeSessions, configWrites, configReturned>>
    /\ Collected(heap)

deleteUser(p) ==
  \E g \in Guilds : \E u \in Users :
    LET s == Storage_deleteUser(storage, heap, g, u, now)
    IN  /\ Begin(p, "done", Wrote(NewOp("deleteUser", g, u)))
        /\ storage' = s.st
        /\ UNCHANGED <<now, cacheManager, guilds, activeSessions, configWrites, configReturned>>
        /\ Collected(s.h)

(***************************************************************************)
(* Guild, Config and User objects.  A Guild object is                      *)
(*   [guildId, config, users, extraData, lastUpdated]                      *)
(* where config is the reference of the configuration object its Config    *)
(* wraps and users holds the fields of its User objects.  A pending        *)
(* operation holds the Guild object it looked up (loc.oid), also after     *)
(* deleteGuild took it out of the manager's collection.                    *)
(***************************************************************************)
\* User.save: storage.saveUser(this.guildId, this.data); User.data is a new
\* object.  Gives the storage and the heap afterwards.
User_save(st, h, user, t) ==
  Storage_saveUser(st, MapSet(h, New(h), user), user.guildId, New(h), t)

\* new objects with the fields of the User objects users; m collects their
\* references
RECURSIVE UserDatas(_, _, _)
UserDatas(h, users, m) ==
  IF DOMAIN users = DOMAIN m THEN [h |-> h, m |-> m]
  ELSE LET u == CHOOSE u \in DOMAIN users \ DOMAIN m : TRUE
       IN  UserDatas(MapSet(h, New(h), users[u]), users, MapSet(m, u, New(h)))

\* Guild.data: a new GuildData object, with a new configuration object
\* (Config.data), a new Map and new UserData objects (User.data)
GuildDataOf(h, oid) ==
  LET guild == h[oid]
      config == New(h)
      d == UserDatas(MapSet(h, config, h[guild.config]), guild.users, EmptyMap)
      users == New(d.h)
  IN  [ h |-> MapSet(d.h, users, d.m),
        data |-> [ guildId |-> guild.guildId, config |-> config, users |-> users,
                   lastUpdated |-> guild.lastUpdated, extraData |-> guild.extraData ] ]

\* Guild.save: storage.saveGuild(this.data)
Guild_save(st, h, oid) ==
  LET d == GuildDataOf(h, oid)
  IN  [st |-> Storage_saveGuild(st, d.data), h |-> d.h]

User_addVoiceTime(user, amount, t) ==
  [user EXCEPT !.totalVoiceTime = @ + amount, !.lastSeen = Date(t)]

\* User.addXP with a level-up reported on every gain
AddXPReportsLevelUp(user, amount, mult, t) ==
  [ user |-> [user EXCEPT !.xp = user.xp + amount,
                          !.level = calculateLevel(user.xp + amount, mult),
                          !.lastSeen = Date(t)],
    leveledUp |-> TRUE ]

\* User.addXP: [user |-> the user afterwards, leveledUp |-> what it returns]
User_addXP(user, amount, mult, t) ==
  LET oldLevel == user.level
      xp == user.xp + amount
      newLevel == calculateLevel(xp, mult)
      leveledUp == newLevel > oldLevel
  IN  [ user |-> [user EXCEPT !.xp = xp,
                              !.level = IF leveledUp THEN newLevel ELSE oldLevel,
                              !.lastSeen = Date(t)],
        leveledUp |-> leveledUp ]

\* User.addXP after its await of the level multiplier: user is the object
\* as it is then, oldLevel the level read before the await
User_addXP_resumed(user, oldLevel, mult, t) ==
  LET newLevel == calculateLevel(user.xp, mult)
      leveledUp == newLevel > oldLevel
  IN  [ user |-> [user EXCEPT !.level = IF leveledUp THEN newLevel ELSE @,
                              !.lastSeen = Date(t)],
        leveledUp |-> leveledUp ]

User_setLevel(user, level) == [user EXCEPT !.level = level]

User_setXP(user, xp, mult) == [user EXCEPT !.xp = xp, !.level = calculateLevel(xp, mult)]

User_reset(user) ==
  [user EXCEPT !.totalVoiceTime = 0, !.xp = 0, !.level = 0, !.totalSessions = 0, !.streak = 0]

User_editMetadata(user, metadata) == [user EXCEPT !.metadata = @ \cup metadata]

\* Config.edit: the options given replace (or, for the nested objects, merge
\* into) the fields of the configuration object
Config_edit(config, options) ==
  [f \in (DOMAIN config) \cup (DOMAIN options) |->
     IF f \notin DOMAIN options THEN config[f]
     ELSE IF f \in {"xpConfig", "voiceTimeConfig", "levelMultiplierConfig"}
     THEN options[f] @@ Field(config, f, EmptyMap)
     ELSE options[f]]

\* the edits the callers make
ConfigEdits == { [enableLeveling |-> FALSE], [enableVoiceTime |-> FALSE],
                 [xpConfig |-> [baseAmount |-> DefaultXp]] }

\* an operation on a User object of the manager's guilds: the object is
\* changed and saved in one step. addXP and setXP await the level
\* multiplier before the save; that await changes neither storage nor cache
UserCall(p, op, g, u, user) ==
  LET s == User_save(storage, [heap EXCEPT ![guilds[g]].users[u] = user], user, now)
  IN  /\ g \in DOMAIN guilds
      /\ u \in DOMAIN heap[guilds[g]].users
      /\ Begin(p, "done", Wrote(NewOp(op, g, u)))
      /\ storage' = s.st
      /\ UNCHANGED <<now, cacheManager, guilds, activeSessions, configWrites, configReturned>>
      /\ Collected(s.h)

UserObj(g, u) == heap[guilds[g]].users[u]
\* the configuration a Guild object's Config wraps
ConfigObj(oid) == heap[heap[oid].config]

userAddVoiceTime(p) ==
  \E g \in DOMAIN guilds : \E u \in DOMAIN heap[guilds[g]].users :
    UserCall(p, "User.addVoiceTime", g, u, User_addVoiceTime(UserObj(g, u), DefaultVoiceTime, now))

userAddXP(p) ==
  \E g \in DOMAIN guilds : \E u \in DOMAIN heap[guilds[g]].users :
    UserCall(p, "User.addXP", g, u,
             User_addXP(UserObj(g, u), ConfiguredXp, getLevelMultiplier(ConfigObj(guilds[g])), now).user)

userSetLevel(p) ==
  \E g \in DOMAIN guilds : \E u \in DOMAIN heap[guilds[g]].users :
    UserCall(p, "User.setLevel", g, u, User_setLevel(UserObj(g, u), 2))

\* User.addXP up to its await of Config.getLevelMultiplier: the level is
\* read and the XP added
addXP_start(p) ==
  \E g \in DOMAIN guilds : \E u \in DOMAIN heap[guilds[g]].users :
    /\ Begin(p, "ax_mult", With(NewOp("User.addXP", g, u),
                                [oldLevel |-> UserObj(g, u).level, amount |-> ConfiguredXp]))
    /\ UNCHANGED <<now, cacheManager, storage, guilds, activeSessions, configWrites, configReturned>>
    /\ Collected([heap EXCEPT ![guilds[g]].users[u].xp = @ + ConfiguredXp])

\* User.addXP from the await on: the level-up test, the save and the return.
\* history: levelBefore, the level of the object when the method resumes
addXP_resume(p) ==
  /\ pc[p] = "ax_mult"
  /\ UNCHANGED <<now, cacheManager, guilds, activeSessions, opsLeft, configWrites, configReturned>>
  /\ LET l == loc[p]
         g == l.guildId
         u == l.userId
         r == User_addXP_resumed(UserObj(g, u), l.oldLevel, getLevelMultiplier(ConfigObj(guilds[g])), now)
         s == User_save(storage, [heap EXCEPT ![guilds[g]].users[u] = r.user], r.user, now)
     IN  /\ storage' = s.st
         /\ Finish(p, With(Wrote(l), [ret |-> Some(r.leveledUp), levelBefore |-> UserObj(g, u).level]))
         /\ Collected(s.h)

userSetXP(p) ==
  \E g \in DOMAIN guilds : \E u \in DOMAIN heap[guilds[g]].users :
    UserCall(p, "User.setXP", g, u,
             User_setXP(UserObj(g, u), ConfiguredXp, getLevelMultiplier(ConfigObj(guilds[g]))))

userReset(p) ==
  \E g \in DOMAIN guilds : \E u \in DOMAIN heap[guilds[g]].users :
    UserCall(p, "User.reset", g, u, User_reset(UserObj(g, u)))

userEditMetadata(p) ==
  \E g \in DOMAIN guilds : \E u \in DOMAIN heap[guilds[g]].users :
    UserCall(p, "User.editMetadata", g, u, User_editMetadata(UserObj(g, u), {"note"}))

\* Config.edit: the configuration object is changed in place, then Guild.save
configEdit(p) ==
  \E g \in DOMAIN guilds : \E options \in ConfigEdits :
    LET s == Guild_save(storage, [heap EXCEPT ![heap[guilds[g]].config] = Config_edit(@, options)],
                        guilds[g])
    IN  /\ Begin(p, "done", Wrote(NewOp("Config.edit", g, "")))
        /\ storage' = s.st
        /\ UNCHANGED <<now, cacheManager, guilds, activeSessions, configWrites, configReturned>>
        /\ Collected(s.h)

\* Guild.edit
guildEdit(p) ==
  \E g \in DOMAIN guilds :
    LET s == Guild_save(storage, [heap EXCEPT ![guilds[g]].extraData = @ \cup {"extra"},
                                              ![guilds[g]].lastUpdated = Date(now)],
                        guilds[g])
    IN  /\ Begin(p, "done", Wrote(NewOp("Guild.edit", g, "")))
        /\ storage' = s.st
        /\ UNCHANGED <<now, cacheManager, guilds, activeSessions, configWrites, configReturned>>
        /\ Collected(s.h)

(***************************************************************************)
(* The tracking tick: trackVoiceActivity for one guild and one member in   *)
(* a voice channel, then processMember.  `tracked` is what                 *)
(* shouldTrackMember and shouldTrackChannel answer for the member.         *)
(***************************************************************************)
\* the leaderboard keys a cache holds
LeaderboardKeys(cm) == DOMAIN cm.cache.cache \ (GuildKeys \cup UserKeys)

Start_trackVoiceActivity(p) ==
  \E g \in Guilds : \E u \in Users : \E tracked \in BOOLEAN :
    /\ LET l == With(NewOp("trackVoiceActivity", g, u),
                     [tracked |-> tracked, gained |-> FALSE, gainedXp |-> FALSE, leveledUp |-> FALSE,
                      oldLevel |-> 0, newLevel |-> 0, removed |-> {}, fanOuts |-> 0,
                      lbBefore |-> LeaderboardKeys(cacheManager)])
       IN  IF g \in DOMAIN guilds
           THEN Begin(p, "pm_start", With(l, [oid |-> guilds[g]]))
           ELSE Begin(p, "ggc_get", With(l, [stack |-> <<"tv_create">>, minIdx |-> configReturned[g]]))
    /\ UNCHANGED <<now, cacheManager, storage, guilds, activeSessions, configWrites, configReturned>>
    /\ Collected(heap)

\* the guild is not in the manager's collection: a Guild object is made
\* from the configuration object getGuildConfig returned, and saved
trackVoiceActivity_createGuild(p) ==
  /\ pc[p] = "tv_create"
  /\ UNCHANGED <<now, cacheManager, activeSessions, opsLeft, configWrites, configReturned>>
  /\ LET l == loc[p]
         users == New(heap)
         h1 == MapSet(heap, users, EmptyMap)
         guildData == [ guildId |-> l.guildId, config |-> l.retRef, users |-> users,
                        lastUpdated |-> Date(now), extraData |-> {} ]
         oid == New(h1)
         h2 == MapSet(h1, oid, NewGuild(h1, guildData))
         s == Guild_save(storage, h2, oid)
     IN  /\ guilds' = MapSet(guilds, l.guildId, oid)
         /\ storage' = s.st
         /\ Goto(p, "pm_start", With(Wrote(l), [oid |-> oid]))
         /\ Collected(s.h)

\* processMember up to guild.getOrCreateUser
processMember_getOrCreateUser(p) ==
  /\ pc[p] = "pm_start"
  /\ UNCHANGED <<now, cacheManager, guilds, activeSessions, opsLeft, configWrites, configReturned>>
  /\ LET l == loc[p]
         guild == heap[l.oid]
         user == NewUserData(l.guildId, l.userId, now)
         s == User_save(storage, [heap EXCEPT ![l.oid].users = MapSet(@, l.userId, user)], user, now)
     IN  IF ~l.tracked
         THEN Finish(p, l) /\ storage' = storage /\ Collected(heap)
         ELSE IF l.userId \in DOMAIN guild.users
         THEN Goto(p, "pm_voice", l) /\ storage' = storage /\ Collected(heap)
         ELSE /\ storage' = s.st
              /\ Goto(p, "pm_voice", Wrote(l))
              /\ Collected(s.h)

processMember_addVoiceTime(p) ==
  /\ pc[p] = "pm_voice"
  /\ UNCHANGED <<now, cacheManager, guilds, activeSessions, opsLeft, configWrites, configReturned>>
  /\ LET l == loc[p]
         guild == heap[l.oid]
         config == ConfigObj(l.oid)
         user == User_addVoiceTime(guild.users[l.userId], getVoiceTimeToAdd(config), now)
         s == User_save(storage, [heap EXCEPT ![l.oid].users[l.userId] = user], user, now)
     IN  IF Field(config, "enableVoiceTime", FALSE)
         THEN /\ storage' = s.st
              /\ Goto(p, "pm_xp", With(Wrote(l), [gained |-> TRUE]))
              /\ Collected(s.h)
         ELSE Goto(p, "pm_xp", l) /\ storage' = storage /\ Collected(heap)

\* the session of a member, if one is active, earns the XP of the tick
SessionKey(guildId, userId) == guildId \o "-" \o userId

SessionEarns(sessions, guildId, userId, xp) ==
  IF SessionKey(guildId, userId) \in DOMAIN sessions
  THEN [sessions EXCEPT ![SessionKey(guildId, userId)].xpEarned = @ + xp]
  ELSE sessions

processMember_addXP(p) ==
  /\ pc[p] = "pm_xp"
  /\ UNCHANGED <<now, cacheManager, guilds, opsLeft, configWrites, configReturned>>
  /\ LET l == loc[p]
         guild == heap[l.oid]
         config == ConfigObj(l.oid)
         xpToAdd == getXpToAdd(config)
         r == User_addXP(guild.users[l.userId], xpToAdd, getLevelMultiplier(config), now)
         l1 == With(Wrote(l), [gained |-> TRUE, gainedXp |-> TRUE, leveledUp |-> r.leveledUp,
                               xpToAdd |-> xpToAdd,
                               oldLevel |-> guild.users[l.userId].level,
                               newLevel |-> r.user.level])
         s == User_save(storage, [heap EXCEPT ![l.oid].users[l.userId] = r.user], r.user, now)
     IN  IF Field(config, "enableLeveling", FALSE)
         THEN /\ storage' = s.st
              /\ IF r.leveledUp
                 THEN Goto(p, "pm_inval", l1) /\ UNCHANGED activeSessions
                 ELSE /\ activeSessions' = SessionEarns(activeSessions, l.guildId, l.userId, xpToAdd)
                      /\ Finish(p, l1)
              /\ Collected(s.h)
         ELSE Finish(p, l) /\ UNCHANGED <<storage, activeSessions>> /\ Collected(heap)

processMember_invalidateLeaderboards(p) ==
  /\ pc[p] = "pm_inval"
  /\ UNCHANGED <<now, storage, guilds, opsLeft, configWrites, configReturned>>
  /\ LET l == loc[p]
     IN  /\ cacheManager' = CacheManager_invalidateLeaderboards(cacheManager, l.guildId)
         /\ activeSessions' = SessionEarns(activeSessions, l.guildId, l.userId, l.xpToAdd)
         /\ Finish(p, With(Invalidated(l),
                           [removed |-> DOMAIN cacheManager.cache.cache \ DOMAIN cacheManager'.cache.cache,
                            fanOuts |-> l.fanOuts + 1]))
  /\ Collected(heap)

(***************************************************************************)
(* handleVoiceStateUpdate: a member joins a voice channel (startSession),  *)
(* or leaves it (endSession).                                              *)
(***************************************************************************)
Start_startSession(p) ==
  \E g \in Guilds : \E u \in Users :
    /\ activeSessions' = MapSet(activeSessions, SessionKey(g, u),
                                [userId |-> u, guildId |-> g, channelId |-> Channel,
                                 startTime |-> Date(now), xpEarned |-> 0])
    /\ UNCHANGED <<now, cacheManager, guilds, configWrites, configReturned>>
    /\ IF g \in DOMAIN guilds
       THEN LET l == With(NewOp("startSession", g, u), [oid |-> guilds[g]])
                user == NewUserData(g, u, now)
                s == User_save(storage, [heap EXCEPT ![guilds[g]].users = MapSet(@, u, user)], user, now)
            IN  IF u \in DOMAIN heap[guilds[g]].users
                THEN Begin(p, "ss_save", l) /\ storage' = storage /\ Collected(heap)
                ELSE /\ Begin(p, "ss_save", Wrote(l))
                     /\ storage' = s.st
                     /\ Collected(s.h)
       ELSE Begin(p, "done", NewOp("startSession", g, u)) /\ storage' = storage /\ Collected(heap)

\* user.totalSessions++; await user.save()
startSession_save(p) ==
  /\ pc[p] = "ss_save"
  /\ UNCHANGED <<now, cacheManager, guilds, activeSessions, opsLeft, configWrites, configReturned>>
  /\ LET l == loc[p]
         user == [heap[l.oid].users[l.userId] EXCEPT !.totalSessions = @ + 1]
         s == User_save(storage, [heap EXCEPT ![l.oid].users[l.userId] = user], user, now)
     IN  /\ storage' = s.st
         /\ Finish(p, Wrote(l))
         /\ Collected(s.h)

\* endSession: the session is saved with the sessions, then removed
Start_endSession(p) ==
  \E g \in Guilds : \E u \in Users :
    /\ IF SessionKey(g, u) \in DOMAIN activeSessions
       THEN Begin(p, "es_del", NewOp("endSession", g, u))
       ELSE Begin(p, "done", NewOp("endSession", g, u))
    /\ UNCHANGED <<now, cacheManager, storage, guilds, activeSessions, configWrites, configReturned>>
    /\ Collected(heap)

endSession_delete(p) ==
  /\ pc[p] = "es_del"
  /\ activeSessions' = MapDelete(activeSessions, SessionKey(loc[p].guildId, loc[p].userId))
  /\ Finish(p, loc[p])
  /\ UNCHANGED <<now, cacheManager, storage, guilds, opsLeft, configWrites, configReturned>>
  /\ Collected(heap)

ConfigStep(p) ==
  \/ Start_getGuildConfig(p)
  \/ getGuildConfig_cacheGet(p)
  \/ getGuildConfig_storageGet(p)
  \/ getGuildConfig_cacheSet(p)
  \/ getGuildConfig_return(p)
  \/ Start_saveGuildConfig(p)
  \/ saveGuildConfig_storageGet(p)
  \/ saveGuildConfig_storageSave(p)
  \/ saveGuildConfig_invalidate(p)
  \/ Return(p)

GetUserStep(p) ==
  \/ Start_getUser(p)
  \/ getUser_cacheGet(p)
  \/ getUser_storageGet(p)
  \/ getUser_cacheSet(p)

UserStep(p) ==
  \/ GetUserStep(p)
  \/ Start_updateUser(p)
  \/ updateUser_storageGet(p)
  \/ updateUser_createUser(p)
  \/ updateUser_apply(p)
  \/ updateUser_level(p)
  \/ updateUser_invalidate(p)
  \/ Return(p)

LeaderboardStep(p) ==
  \/ Start_getLeaderboard(p)
  \/ getLeaderboard_cacheGet(p)
  \/ getLeaderboard_storageGet(p)
  \/ getLeaderboard_cacheSet(p)

TrackStep(p) ==
  \/ Start_trackVoiceActivity(p)
  \/ trackVoiceActivity_createGuild(p)
  \/ processMember_getOrCreateUser(p)
  \/ processMember_addVoiceTime(p)
  \/ processMember_addXP(p)
  \/ processMember_invalidateLeaderboards(p)

SessionStep(p) ==
  \/ Start_startSession(p)
  \/ startSession_save(p)
  \/ Start_endSession(p)
  \/ endSession_delete(p)

UserObjectStep(p) ==
  \/ userAddVoiceTime(p)
  \/ userAddXP(p)
  \/ userSetLevel(p)
  \/ userSetXP(p)
  \/ userReset(p)
  \/ userEditMetadata(p)

ObjectStep(p) ==
  \/ UserObjectStep(p)
  \/ configEdit(p)
  \/ guildEdit(p)
  \/ deleteGuild(p)
  \/ deleteUser(p)

Step(p) ==
  \/ ConfigStep(p)
  \/ UserStep(p)
  \/ LeaderboardStep(p)
  \/ TrackStep(p)
  \/ SessionStep(p)
  \/ ObjectStep(p)

(***************************************************************************)
(* CacheManager.invalidateLeaderboards called on a cache that holds pages  *)
(* and records of several guilds (statistics enabled).                     *)
(***************************************************************************)
FanOutGuilds == GuildIds

\* entries the cache may hold: pages of the common permutations, a page
\* with another limit, a page with an offset, a page of another guild, a
\* user record and a guild record
FanOutEntries ==
  << [family |-> "leaderboard", guildId |-> "g1", sortBy |-> "xp", limit |-> 10, offset |-> 0],
     [family |-> "leaderboard", guildId |-> "g1", sortBy |-> "level", limit |-> 100, offset |-> 0],
     [family |-> "leaderboard", guildId |-> "g1", sortBy |-> "voiceTime", limit |-> 25, offset |-> 0],
     [family |-> "leaderboard", guildId |-> "g1", sortBy |-> "xp", limit |-> 5, offset |-> 0],
     [family |-> "leaderboard", guildId |-> "g1", sortBy |-> "xp", limit |-> 10, offset |-> 10],
     [family |-> "leaderboard", guildId |-> "g2", sortBy |-> "xp", limit |-> 10, offset |-> 0],
     [family |-> "user", guildId |-> "g1"],
     [family |-> "guild", guildId |-> "g1"] >>

\* the records the entries were made from: per guild a configuration, a
\* UserData and a users Map object
FanOutObjects ==
  [o \in 1..6 |->
     LET g == IF o <= 3 THEN "g1" ELSE "g2"
     IN  IF o \in {1, 4} THEN getDefaultConfig(g)
         ELSE IF o \in {2, 5} THEN SeasonedUserData(g, "u1")
         ELSE [u \in Users |-> o - 1]]

GuildDataFor(guildId) ==
  IF guildId = "g1" THEN StoredGuild(guildId)
  ELSE [StoredGuild(guildId) EXCEPT !.config = 4, !.users = 6]

\* the set* call that caches an entry
SetEntry(cm, e, t) ==
  IF e.family = "leaderboard"
  THEN CacheManager_setLeaderboard(cm, e.guildId, e.sortBy, e.limit, e.offset,
                                   Storage_getLeaderboard([g \in {e.guildId} |-> GuildDataFor(g)],
                                                          FanOutObjects, e.guildId, e.sortBy, e.limit, 0),
                                   Undefined, t)
  ELSE IF e.family = "user"
  THEN CacheManager_setUser(cm, FanOutObjects, FanOutObjects[GuildDataFor(e.guildId).users]["u1"],
                            Undefined, t)
  ELSE CacheManager_setGuild(cm, FanOutObjects, GuildDataFor(e.guildId), Undefined, t)

RECURSIVE SetEntries(_, _, _)
SetEntries(cm, i, chosen) ==
  IF i > Len(FanOutEntries) THEN cm
  ELSE SetEntries(IF i \in chosen THEN SetEntry(cm, FanOutEntries[i], 0) ELSE cm, i + 1, chosen)

FanOutInit ==
  /\ now = 0
  /\ \E chosen \in SUBSET (1..Len(FanOutEntries)) :
       cacheManager = SetEntries(CacheManager_new(MemoryCache_init(MemoryCache_new(ConfiguredTtl, Undefined, TRUE))),
                                 1, chosen)
  /\ storage = EmptyMap
  /\ guilds = EmptyMap
  /\ activeSessions = EmptyMap
  /\ pc = [p \in Procs |-> "idle"]
  /\ loc = [p \in Procs |-> Idle]
  /\ heap = Collect(FanOutObjects, storage, cacheManager, guilds, loc)
  /\ opsLeft = MaxOps
  /\ configWrites = [g \in Guilds |-> <<>>]
  /\ configReturned = [g \in Guilds |-> 0]
  /\ lastDone = Null

\* history: before, the cache the call found
invalidateLeaderboards(p) ==
  \E g \in FanOutGuilds :
    /\ Begin(p, "done", With(NewOp("invalidateLeaderboards", g, ""), [before |-> cacheManager.cache]))
    /\ cacheManager' = CacheManager_invalidateLeaderboards(cacheManager, g)
    /\ UNCHANGED <<now, storage, guilds, activeSessions, configWrites, configReturned>>
    /\ Collected(heap)

NextFanOut == invalidateLeaderboards(1) \/ Return(1)

SpecFanOut == FanOutInit /\ [][NextFanOut]_vars

(***************************************************************************)
(* The CacheManager by itself: constructed with an adapter or without      *)
(* one, its operations called one after the other on an adapter whose      *)
(* methods may throw.  History of a call: before, the manager it found;    *)
(* faulted, whether an adapter method it reached threw; threw, whether     *)
(* the call threw to its caller.                                           *)
(***************************************************************************)
CoordinatorOps ==
  { "getGuild", "setGuild", "invalidateGuild", "getUser", "setUser", "invalidateUser",
    "getLeaderboard", "setLeaderboard", "invalidateLeaderboards",
    "getStats", "clear", "close", "init" }

CoordinatorInit ==
  /\ now = 0
  /\ cacheManager \in { CacheManager_new(Null),
                        CacheManager_new(MemoryCache_new(ConfiguredTtl, Undefined, TRUE)) }
  /\ storage = EmptyMap
  /\ guilds = EmptyMap
  /\ activeSessions = EmptyMap
  /\ pc = [p \in Procs |-> "idle"]
  /\ loc = [p \in Procs |-> Idle]
  /\ heap = EmptyMap
  /\ opsLeft = MaxOps
  /\ configWrites = [g \in Guilds |-> <<>>]
  /\ configReturned = [g \in Guilds |-> 0]
  /\ lastDone = Null

CoordinatorCall(p, op, g, faulted, r) ==
  /\ Begin(p, "done", With(NewOp(op, g, ""),
                           [ ret |-> r.ret, threw |-> r.threw, before |-> cacheManager,
                             faulted |-> cacheManager.enabled /\ faulted ]))
  /\ cacheManager' = r.cm
  /\ UNCHANGED <<now, storage, guilds, activeSessions, configWrites, configReturned>>
  /\ Collected(FanOutObjects)

Coordinator_getGuild(p) ==
  \E g \in FanOutGuilds, fault \in BOOLEAN :
    CoordinatorCall(p, "getGuild", g, fault,
      TryCatch(cacheManager, fault,
               LET r == CacheManager_getGuild(cacheManager, g, now) IN Returned(r.cm, r.ret),
               Null))

Coordinator_setGuild(p) ==
  \E g \in FanOutGuilds, fault \in BOOLEAN :
    CoordinatorCall(p, "setGuild", g, fault,
      TryCatch(cacheManager, fault,
               Returned(CacheManager_setGuild(cacheManager, FanOutObjects, GuildDataFor(g), Undefined, now), Null),
               Null))

Coordinator_invalidateGuild(p) ==
  \E g \in FanOutGuilds, fault \in BOOLEAN :
    CoordinatorCall(p, "invalidateGuild", g, fault,
      TryCatch(cacheManager, fault, Returned(CacheManager_invalidateGuild(cacheManager, g), Null), Null))

Coordinator_getUser(p) ==
  \E g \in FanOutGuilds, u \in Users, fault \in BOOLEAN :
    CoordinatorCall(p, "getUser", g, fault,
      TryCatch(cacheManager, fault,
               LET r == CacheManager_getUser(cacheManager, heap, g, u, now) IN Returned(r.cm, r.ret),
               Null))

Coordinator_setUser(p) ==
  \E g \in FanOutGuilds, u \in Users, fault \in BOOLEAN :
    CoordinatorCall(p, "setUser", g, fault,
      TryCatch(cacheManager, fault,
               Returned(CacheManager_setUser(cacheManager, FanOutObjects,
                                             FanOutObjects[GuildDataFor(g).users][u], Undefined, now), Null),
               Null))

Coordinator_invalidateUser(p) ==
  \E g \in FanOutGuilds, u \in Users, fault \in BOOLEAN :
    CoordinatorCall(p, "invalidateUser", g, fault,
      TryCatch(cacheManager, fault, Returned(CacheManager_invalidateUser(cacheManager, g, u), Null), Null))

Coordinator_getLeaderboard(p) ==
  \E g \in FanOutGuilds, fault \in BOOLEAN :
    CoordinatorCall(p, "getLeaderboard", g, fault,
      TryCatch(cacheManager, fault,
               LET r == CacheManager_getLeaderboard(cacheManager, g, "xp", DefaultLimit, 0, now)
               IN  Returned(r.cm, r.ret),
               Null))

Coordinator_setLeaderboard(p) ==
  \E g \in FanOutGuilds, fault \in BOOLEAN :
    CoordinatorCall(p, "setLeaderboard", g, fault,
      TryCatch(cacheManager, fault,
               Returned(CacheManager_setLeaderboard(cacheManager, g, "xp", DefaultLimit, 0,
                          Storage_getLeaderboard([x \in {g} |-> GuildDataFor(x)], FanOutObjects,
                                                 g, "xp", DefaultLimit, 0),
                          Undefined, now), Null),
               Null))

\* failing: the keys whose delete throws
Coordinator_invalidateLeaderboards(p) ==
  \E g \in FanOutGuilds :
    \E failing \in { {}, {LeaderboardPermutations(g)[1]}, Range(LeaderboardPermutations(g)) } :
      CoordinatorCall(p, "invalidateLeaderboards", g, failing # {},
        IF ~cacheManager.enabled THEN Returned(cacheManager, Null)
        ELSE Returned([cacheManager EXCEPT
                         !.cache = DeleteEachCaught(cacheManager.cache, LeaderboardPermutations(g), failing)],
                      Null))

Coordinator_getStats(p) ==
  \E fault \in BOOLEAN :
    CoordinatorCall(p, "getStats", "", fault, CacheManager_getStats(cacheManager, fault))

Coordinator_clear(p) ==
  \E fault \in BOOLEAN :
    CoordinatorCall(p, "clear", "", fault, CacheManager_clear(cacheManager, fault))

Coordinator_close(p) ==
  \E fault \in BOOLEAN :
    CoordinatorCall(p, "close", "", fault, CacheManager_close(cacheManager, fault))

Coordinator_init(p) ==
  \E fault \in BOOLEAN :
    CoordinatorCall(p, "init", "", fault, CacheManager_init(cacheManager, fault))

NextCoordinator ==
  \/ Coordinator_getGuild(1)
  \/ Coordinator_setGuild(1)
  \/ Coordinator_invalidateGuild(1)
  \/ Coordinator_getUser(1)
  \/ Coordinator_setUser(1)
  \/ Coordinator_invalidateUser(1)
  \/ Coordinator_getLeaderboard(1)
  \/ Coordinator_setLeaderboard(1)
  \/ Coordinator_invalidateLeaderboards(1)
  \/ Coordinator_getStats(1)
  \/ Coordinator_clear(1)
  \/ Coordinator_close(1)
  \/ Coordinator_init(1)
  \/ Return(1)

SpecCoordinator == CoordinatorInit /\ [][NextCoordinator]_vars

(***************************************************************************)
(* The MemoryCache by itself: its methods called one after the other on    *)
(* any keys (the empty string is a key), with a per-call ttl or without,   *)
(* while time passes and the interval timers fire.  The value of a set is  *)
(* history: the time of the set and the ttl that was given.  lastDone is   *)
(* the call made last: op, key, ret (the result) and at (the time).        *)
(***************************************************************************)
EngineKeys == {"", "a", "b"}

\* the ttl argument of a set: omitted, or given
EngineTtls == {Null, Some(0), Some(CleanupPeriod), Some(0 - CleanupPeriod)}

\* the maxSize the cache is constructed with
EngineSizes == {1, 2}

EngineInit ==
  /\ now = 0
  /\ \E maxSize \in EngineSizes, enableStats \in BOOLEAN :
       cacheManager = CacheManager_new(MemoryCache_new(ConfiguredTtl, maxSize, enableStats))
  /\ storage = EmptyMap
  /\ guilds = EmptyMap
  /\ activeSessions = EmptyMap
  /\ pc = [p \in Procs |-> "idle"]
  /\ loc = [p \in Procs |-> Idle]
  /\ heap = EmptyMap
  /\ opsLeft = MaxCalls
  /\ configWrites = [g \in Guilds |-> <<>>]
  /\ configReturned = [g \in Guilds |-> 0]
  /\ lastDone = Null

\* a method of the cache is called and returns: mc is the cache afterwards
EngineCall(op, key, mc, ret) ==
  /\ opsLeft > 0
  /\ opsLeft' = opsLeft - 1
  /\ cacheManager' = [cacheManager EXCEPT !.cache = mc]
  /\ lastDone' = Some([op |-> op, key |-> key, ret |-> ret, at |-> now])
  /\ UNCHANGED <<now, storage, guilds, heap, activeSessions, pc, loc, configWrites, configReturned>>

Engine_get ==
  \E key \in EngineKeys :
    LET r == MemoryCache_get(cacheManager.cache, key, now)
    IN  EngineCall("get", key, r.mc, r.ret)

Engine_set ==
  \E key \in EngineKeys, ttl \in EngineTtls :
    EngineCall("set", key,
               MemoryCache_set(cacheManager.cache, key, [at |-> now, ttl |-> ttl],
                               IF ttl.ok THEN ttl.v ELSE Undefined, now),
               Null)

Engine_delete ==
  \E key \in EngineKeys :
    EngineCall("delete", key, MemoryCache_delete(cacheManager.cache, key), Null)

Engine_clear == EngineCall("clear", "", MemoryCache_clear(cacheManager.cache), Null)

Engine_has ==
  \E key \in EngineKeys :
    LET r == MemoryCache_has(cacheManager.cache, key, now)
    IN  EngineCall("has", key, r.mc, Some(r.ret))

Engine_getStats ==
  EngineCall("getStats", "", cacheManager.cache, Some(MemoryCache_getStats(cacheManager.cache)))

Engine_init == EngineCall("init", "", MemoryCache_init(cacheManager.cache), Null)

Engine_close == EngineCall("close", "", MemoryCache_close(cacheManager.cache), Null)

NextEngine ==
  \/ Engine_get
  \/ Engine_set
  \/ Engine_delete
  \/ Engine_clear
  \/ Engine_has
  \/ Engine_getStats
  \/ Engine_init
  \/ Engine_close
  \/ ClockAdvance
  \/ CleanupTimer

SpecEngine == EngineInit /\ [][NextEngine]_vars

\* the set* and get* calls of the CacheManager on a MemoryCache made with
\* the default ttl or with a configured one, while time passes.  The users
\* Map of guild g2 has a user of id "__proto__" (object 7) besides u1.
RoundTripObjects ==
  [o \in 1..7 |->
     IF o = 6 THEN [u \in {"u1", "__proto__"} |-> IF u = "u1" THEN 5 ELSE 7]
     ELSE IF o = 7 THEN SeasonedUserData("g2", "__proto__")
     ELSE FanOutObjects[o]]

RoundTripTtls == {Undefined, CleanupPeriod}

RoundTripInit ==
  /\ now = 0
  /\ cacheManager \in {CacheManager_new(MemoryCache_new(ttl, Undefined, TRUE)) : ttl \in {Undefined, ConfiguredTtl}}
  /\ storage = EmptyMap
  /\ guilds = EmptyMap
  /\ activeSessions = EmptyMap
  /\ pc = [p \in Procs |-> "idle"]
  /\ loc = [p \in Procs |-> Idle]
  /\ heap = EmptyMap
  /\ opsLeft = MaxOps
  /\ configWrites = [g \in Guilds |-> <<>>]
  /\ configReturned = [g \in Guilds |-> 0]
  /\ lastDone = Null

\* history: ttl, the ttl argument of the call, and key, the key it is about
RoundTripCall(p, op, g, key, ttl, cm, ret) ==
  /\ Begin(p, "done", With(NewOp(op, g, ""), [ret |-> ret, key |-> key, ttl |-> ttl]))
  /\ cacheManager' = cm
  /\ UNCHANGED <<now, storage, guilds, activeSessions, configWrites, configReturned>>
  /\ Collected(RoundTripObjects)

RoundTrip_setGuild(p) ==
  \E g \in FanOutGuilds, ttl \in RoundTripTtls :
    RoundTripCall(p, "setGuild", g, getGuildKey(g), ttl,
                  CacheManager_setGuild(cacheManager, RoundTripObjects, GuildDataFor(g), ttl, now), Null)

RoundTrip_getGuild(p) ==
  \E g \in FanOutGuilds :
    LET r == CacheManager_getGuild(cacheManager, g, now)
    IN  RoundTripCall(p, "getGuild", g, getGuildKey(g), Undefined, r.cm, r.ret)

RoundTrip_setUser(p) ==
  \E g \in FanOutGuilds, ttl \in RoundTripTtls :
    RoundTripCall(p, "setUser", g, getUserKey(g, "u1"), ttl,
                  CacheManager_setUser(cacheManager, RoundTripObjects,
                                       RoundTripObjects[GuildDataFor(g).users]["u1"], ttl, now), Null)

RoundTrip_setLeaderboard(p) ==
  \E g \in FanOutGuilds, ttl \in RoundTripTtls :
    RoundTripCall(p, "setLeaderboard", g, getLeaderboardKey(g, "xp", DefaultLimit, 0), ttl,
                  CacheManager_setLeaderboard(cacheManager, g, "xp", DefaultLimit, 0,
                     Storage_getLeaderboard([x \in {g} |-> GuildDataFor(x)], RoundTripObjects,
                                            g, "xp", DefaultLimit, 0),
                     ttl, now), Null)

NextRoundTrip ==
  \/ RoundTrip_setGuild(1)
  \/ RoundTrip_getGuild(1)
  \/ RoundTrip_setUser(1)
  \/ RoundTrip_setLeaderboard(1)
  \/ Return(1)
  \/ ClockAdvance

SpecRoundTrip == RoundTripInit /\ [][NextRoundTrip]_vars

(***************************************************************************)
(* The voiceStateUpdate events of one member, u1 of g1.  The client emits *)
(* them in the order they happen; the handler of an event starts when it  *)
(* is emitted and the handlers run interleaved at their awaits.  A        *)
(* handler that has finished keeps its locals: channel, the channel the   *)
(* event leaves the member in ("": none), and started, the session its    *)
(* startSession made.  The guild is not in this.guilds, so startSession   *)
(* awaits nothing.                                                        *)
(***************************************************************************)
VoiceChannels == {Channel, "ch2"}

VoiceKey == SessionKey("g1", "u1")

\* the SessionData object startSession makes
NewSession(guildId, userId, channelId, t) ==
  [userId |-> userId, guildId |-> guildId, channelId |-> channelId, startTime |-> Date(t), xpEarned |-> 0]

VoiceInit ==
  /\ now = 0
  /\ cacheManager = CacheManager_new(Null)
  /\ storage = EmptyMap
  /\ guilds = EmptyMap
  \* the member is in no channel, or in a channel with the session of it
  /\ activeSessions \in {EmptyMap, MapSet(EmptyMap, VoiceKey, NewSession("g1", "u1", Channel, 0))}
  /\ pc = [p \in Procs |-> "idle"]
  /\ loc = [p \in Procs |-> Idle]
  /\ heap = EmptyMap
  /\ opsLeft = MaxOps
  /\ configWrites = [g \in Guilds |-> <<>>]
  /\ configReturned = [g \in Guilds |-> 0]
  /\ lastDone = Null

\* the channel the events emitted so far leave the member in
MemberChannel ==
  IF \E p \in Procs : pc[p] # "idle"
  THEN loc[CHOOSE p \in Procs : pc[p] # "idle" /\ \A q \in Procs : pc[q] # "idle" => q <= p].channel
  ELSE IF VoiceKey \in DOMAIN activeSessions THEN activeSessions[VoiceKey].channelId ELSE ""

VoiceEvent(op, channel) == With(NewOp(op, "g1", "u1"), [channel |-> channel])

\* !oldState.channel && newState.channel: startSession
Voice_join(p) ==
  \E channel \in VoiceChannels :
    LET session == NewSession("g1", "u1", channel, now)
    IN  /\ MemberChannel = ""
        /\ activeSessions' = MapSet(activeSessions, VoiceKey, session)
        /\ Begin(p, "done", With(VoiceEvent("join", channel), [started |-> session]))
        /\ UNCHANGED <<now, cacheManager, storage, guilds, configWrites, configReturned>>
        /\ Collected(heap)

\* oldState.channel && !newState.channel: endSession, up to
\* await this.storage.saveSession(session)
Voice_leave(p) ==
  /\ MemberChannel # ""
  /\ Begin(p, IF VoiceKey \in DOMAIN activeSessions THEN "vs_save" ELSE "done", VoiceEvent("leave", ""))
  /\ UNCHANGED <<now, cacheManager, storage, guilds, activeSessions, configWrites, configReturned>>
  /\ Collected(heap)

\* the member changes channel: endSession, then startSession.  Without a
\* session endSession awaits nothing and startSession follows at once.
Voice_switch(p) ==
  \E channel \in VoiceChannels \ {MemberChannel} :
    LET session == NewSession("g1", "u1", channel, now)
    IN  /\ MemberChannel # ""
        /\ IF VoiceKey \in DOMAIN activeSessions
           THEN /\ Begin(p, "vs_save", VoiceEvent("switch", channel))
                /\ UNCHANGED activeSessions
           ELSE /\ Begin(p, "done", With(VoiceEvent("switch", channel), [started |-> session]))
                /\ activeSessions' = MapSet(activeSessions, VoiceKey, session)
        /\ UNCHANGED <<now, cacheManager, storage, guilds, configWrites, configReturned>>
        /\ Collected(heap)

\* saveSession has returned: this.activeSessions.delete(sessionKey), and
\* after a change of channel startSession
Voice_saved(p) ==
  /\ pc[p] = "vs_save"
  /\ LET l == loc[p]
         session == NewSession("g1", "u1", l.channel, now)
         deleted == MapDelete(activeSessions, VoiceKey)
     IN  IF l.op = "switch"
         THEN /\ activeSessions' = MapSet(deleted, VoiceKey, session)
              /\ Finish(p, With(l, [started |-> session]))
         ELSE /\ activeSessions' = deleted
              /\ Finish(p, l)
  /\ UNCHANGED <<now, cacheManager, storage, guilds, opsLeft, configWrites, configReturned>>
  /\ Collected(heap)

NextVoice ==
  \/ \E p \in Procs : Voice_join(p) \/ Voice_leave(p) \/ Voice_switch(p) \/ Voice_saved(p)
  \/ ClockAdvance

SpecVoice == VoiceInit /\ [][NextVoice]_vars

\* the cache keys of entities whose ids are any strings: ids with and
\* without the separator of the keys
KeyIds == {"a", "b", "a:b", "b:b"}

KeyEntities ==
  {[family |-> "guild", guildId |-> g] : g \in KeyIds}
  \cup {[family |-> "user", guildId |-> g, userId |-> u] : g \in KeyIds, u \in KeyIds}
  \cup {[family |-> "leaderboard", guildId |-> g, sortBy |-> sortBy, limit |-> limit, offset |-> offset] :
          g \in KeyIds, sortBy \in {"voiceTime", "xp", "level"}, limit \in {DefaultLimit, 100}, offset \in {0, DefaultLimit}}

\* the key the CacheManager uses for an entity
KeyOf(e) ==
  IF e.family = "guild" THEN getGuildKey(e.guildId)
  ELSE IF e.family = "user" THEN getUserKey(e.guildId, e.userId)
  ELSE getLeaderboardKey(e.guildId, e.sortBy, e.limit, e.offset)

\* the keys of two entities are computed
Keys_of(p) ==
  /\ loc[p].op = "idle"
  /\ \E a \in KeyEntities, b \in KeyEntities :
       loc' = [loc EXCEPT ![p] = [op |-> "keys", a |-> a, b |-> b, keyA |-> KeyOf(a), keyB |-> KeyOf(b)]]
  /\ UNCHANGED <<now, cacheManager, storage, guilds, heap, activeSessions, pc, opsLeft,
                 configWrites, configReturned, lastDone>>

NextKeys == Keys_of(1)

SpecKeys == CoordinatorInit /\ [][NextKeys]_vars

(***************************************************************************)
(* Config.getXpToAdd with any registered strategies.  A JavaScript value   *)
(* is its typeof and, for a number, whether it is NaN and its value.  A    *)
(* strategy is the built-in 'fixed' one, or one that returns a value or    *)
(* throws whatever it is given.                                            *)
(***************************************************************************)
Number(n) == [type |-> "number", nan |-> FALSE, n |-> n]
NaN == [type |-> "number", nan |-> TRUE, n |-> 0]
OfType(type) == [type |-> type, nan |-> FALSE, n |-> 0]

\* v || d
OrElse(v, d) ==
  IF v.type \in {"undefined", "null"} \/ (v.type = "number" /\ (v.nan \/ v.n = 0)) \/ v = OfType("empty string")
  THEN d ELSE v

\* what a call of a strategy gives: a value, or an exception
Gives(v) == [threw |-> FALSE, v |-> v]
Throws == [threw |-> TRUE, v |-> OfType("undefined")]

\* registerBuiltInStrategies: 'fixed' is config.xpConfig?.baseAmount || 5
FixedStrategy == [kind |-> "fixed"]

Calculate(calculator, data) ==
  IF calculator.kind = "fixed"
  THEN Gives(OrElse(Field(Field(data, "xpConfig", EmptyMap), "baseAmount", OfType("undefined")),
                    Number(DefaultXp)))
  ELSE calculator.outcome

\* VoiceManager.getXPStrategy
getXPStrategy(xpStrategies, strategyName) ==
  IF strategyName \in DOMAIN xpStrategies THEN xpStrategies[strategyName] ELSE xpStrategies["fixed"]

\* getXpToAdd that returns whatever the strategy returns
GetXpToAddUnchecked(xpStrategies, data) ==
  Calculate(getXPStrategy(xpStrategies, Field(data, "xpStrategy", "fixed")), data)

\* Config.getXpToAdd: [threw, v]
Config_getXpToAdd(xpStrategies, data) ==
  LET name == Field(data, "xpStrategy", "")
      strategyName == IF name # "" THEN name ELSE "fixed"
      calculator == getXPStrategy(xpStrategies, strategyName)
      xp == Calculate(calculator, data)
  IN  IF xp.threw THEN Gives(Number(DefaultXp))
      ELSE IF xp.v.type = "number" /\ ~xp.v.nan /\ xp.v.n >= 0 THEN Gives(xp.v)
      ELSE Gives(Number(DefaultXp))

\* what strategies return or do
StrategyOutcomes ==
  {Gives(Number(n)) : n \in {0, 7, 0 - 3}}
  \cup {Gives(NaN), Gives(OfType("string")), Gives(OfType("undefined")), Gives(OfType("object")), Throws}

\* the strategies registered: the built-in 'fixed' or one registered in
\* its place, and perhaps one under the name 'custom'
Registries ==
  { [name \in names |-> IF name = "fixed" THEN fixed ELSE [kind |-> "custom", outcome |-> outcome]] :
      names \in {{"fixed"}, {"fixed", "custom"}},
      fixed \in {FixedStrategy} \cup {[kind |-> "custom", outcome |-> o] : o \in {Throws, Gives(Number(0 - 3))}},
      outcome \in StrategyOutcomes }

\* the configurations: xpStrategy and xpConfig.baseAmount, given or not
StrategyConfigs ==
  { names @@ amounts :
      names \in {EmptyMap} \cup {[xpStrategy |-> n] : n \in {"", "fixed", "custom", "unknown"}},
      amounts \in {EmptyMap, [xpConfig |-> EmptyMap]}
                  \cup {[xpConfig |-> [baseAmount |-> a]] :
                          a \in {Number(0), Number(ConfiguredXp), Number(0 - 3), OfType("string")}} }

\* history: the strategies and the configuration of the call
Config_call(p) ==
  /\ loc[p].op = "idle"
  /\ \E xpStrategies \in Registries, data \in StrategyConfigs :
       loc' = [loc EXCEPT ![p] = [op |-> "getXpToAdd", xpStrategies |-> xpStrategies, data |-> data,
                                  ret |-> Config_getXpToAdd(xpStrategies, data)]]
  /\ UNCHANGED <<now, cacheManager, storage, guilds, heap, activeSessions, pc, opsLeft,
                 configWrites, configReturned, lastDone>>

NextStrategy == Config_call(1)

SpecStrategy == Init /\ [][NextStrategy]_vars

(***************************************************************************)
(* VoiceManager.destroy while the tracking loop runs.  The interval of     *)
(* startTracking starts a tick until destroy has cleared it; a tick that   *)
(* has started goes on at its awaits.  A destroy keeps its locals when it  *)
(* has returned.                                                           *)
(***************************************************************************)
\* clearInterval(this.intervalId) has been called
IntervalCleared == \E q \in Procs : loc[q].op = "destroy"

\* the interval fires: setInterval(() => this.trackVoiceActivity())
TrackingInterval(p) == ~IntervalCleared /\ Start_trackVoiceActivity(p)

\* destroy up to await this.cache.close(): clearInterval, MemoryCache.close
Start_destroy(p) ==
  /\ ~IntervalCleared
  /\ Begin(p, "vd_close", NewOp("destroy", "", ""))
  /\ cacheManager' = CacheManager_close(cacheManager, FALSE).cm
  /\ UNCHANGED <<now, storage, guilds, activeSessions, configWrites, configReturned>>
  /\ Collected(heap)

\* await this.storage.close(): JSONStorage.close saves its file and
\* clears its Map
destroy_storageClose(p) ==
  /\ pc[p] = "vd_close"
  /\ storage' = EmptyMap
  /\ Finish(p, loc[p])
  /\ UNCHANGED <<now, cacheManager, guilds, activeSessions, opsLeft, configWrites, configReturned>>
  /\ Collected(heap)

DestroyStep(p) ==
  \/ TrackingInterval(p)
  \/ getGuildConfig_cacheGet(p)
  \/ getGuildConfig_storageGet(p)
  \/ saveGuildConfig_storageGet(p)
  \/ saveGuildConfig_storageSave(p)
  \/ saveGuildConfig_invalidate(p)
  \/ getGuildConfig_return(p)
  \/ trackVoiceActivity_createGuild(p)
  \/ processMember_getOrCreateUser(p)
  \/ processMember_addVoiceTime(p)
  \/ processMember_addXP(p)
  \/ processMember_invalidateLeaderboards(p)
  \/ Start_destroy(p)
  \/ destroy_storageClose(p)

NextDestroy == \E p \in Procs : DestroyStep(p)

SpecDestroy == Init /\ [][NextDestroy]_vars

\* getGuild of entries that hold the user collection in either serialized
\* form.  An array is the object of its index properties "0", "1", ...,
\* which is what Object.entries reads of it.
ArrayAsObject(array) ==
  [k \in {ToString(i - 1) : i \in 1..Len(array)} |->
     array[CHOOSE i \in 1..Len(array) : ToString(i - 1) = k]]

\* the serialized snapshot of a guild: users as a plain object keyed by
\* userId, or as a list of [userId, record] entries.  form is history.
Serialized(guildId, form) ==
  LET guildData == GuildDataFor(guildId)
      users == FanOutObjects[guildData.users]
  IN  With(guildData,
           [ form |-> form,
             users |-> IF form = "object" THEN users
                       ELSE ArrayAsObject(<< <<"u1", users["u1"]>> >>) ])

\* the serialized snapshot is put into the MemoryCache under the guild's key
Forms_put ==
  \E g \in FanOutGuilds, form \in {"object", "list"} :
    EngineCall("put", g,
               MemoryCache_set(cacheManager.cache, getGuildKey(g), Serialized(g, form), Undefined, now),
               Null)

Forms_getGuild ==
  \E g \in FanOutGuilds :
    LET r == CacheManager_getGuild(cacheManager, g, now)
    IN  EngineCall("getGuild", g, r.cm.cache, r.ret)

NextForms == Forms_put \/ Forms_getGuild \/ ClockAdvance

SpecForms == EngineInit /\ [][NextForms]_vars

\* the batch methods, while time passes
BatchKeys == UNION {[1..n -> {"a", "b"}] : n \in 0..2}

BatchTtls == {Null, Some(CleanupPeriod)}

Engine_mget ==
  \E keys \in BatchKeys :
    LET r == MemoryCache_mget(cacheManager.cache, keys, now)
    IN  EngineCall("mget", keys, r.mc, Some(r.ret))

\* history: the entries and the ttl of the call
Engine_mset ==
  \E keys \in BatchKeys, ttl \in BatchTtls :
    LET entries == [i \in 1..Len(keys) |-> <<keys[i], [at |-> now, ttl |-> ttl]>>]
    IN  EngineCall("mset", entries,
                   MemoryCache_mset(cacheManager.cache, entries, IF ttl.ok THEN ttl.v ELSE Undefined, now),
                   Some(ttl))

NextBatch == Engine_mget \/ Engine_mset \/ ClockAdvance

SpecBatch == EngineInit /\ [][NextBatch]_vars

\* a caller keeps the object getStats returned to it (loc[1].snapshot) and
\* writes to it, while the cache is used.  taken is history: the
\* statistics at the time of the getStats call
Caller_keep ==
  /\ lastDone.ok /\ lastDone.v.op = "getStats"
  /\ "snapshot" \notin DOMAIN loc[1]
  /\ loc' = [loc EXCEPT ![1] = With(loc[1], [snapshot |-> lastDone.v.ret.v, taken |-> cacheManager.cache.stats])]
  /\ UNCHANGED <<now, cacheManager, storage, guilds, heap, activeSessions, pc, opsLeft,
                 configWrites, configReturned, lastDone>>

\* snapshot.hits = -1: a write to the object the caller holds
Caller_edit ==
  /\ "snapshot" \in DOMAIN loc[1]
  /\ "edited" \notin DOMAIN loc[1]
  /\ IF loc[1].snapshot.own
     THEN /\ loc' = [loc EXCEPT ![1] = With(loc[1], [snapshot |-> [loc[1].snapshot EXCEPT !.fields.hits = 0 - 1],
                                                     edited |-> TRUE])]
          /\ UNCHANGED cacheManager
     ELSE /\ loc' = [loc EXCEPT ![1] = With(loc[1], [edited |-> TRUE])]
          /\ cacheManager' = [cacheManager EXCEPT !.cache.stats.hits = 0 - 1]
  /\ UNCHANGED <<now, storage, guilds, heap, activeSessions, pc, opsLeft,
                 configWrites, configReturned, lastDone>>

NextStats == Engine_get \/ Engine_set \/ Engine_delete \/ Engine_getStats \/ Caller_keep \/ Caller_edit

SpecStats == EngineInit /\ [][NextStats]_vars

\* sets and deletes on the MemoryCache, and the invalidate* calls of the
\* CacheManager in front of it
NextDelete ==
  \/ Engine_set
  \/ Engine_delete
  \/ Coordinator_invalidateGuild(1)
  \/ Coordinator_invalidateUser(1)
  \/ Coordinator_invalidateLeaderboards(1)
  \/ Return(1)

SpecDelete == EngineInit /\ [][NextDelete]_vars

\* the reads through the cache and the tracking tick, one call after the
\* other, while time passes and the cleanup timer fires
ExpiryStep(p) ==
  \/ Start_getGuildConfig(p)
  \/ getGuildConfig_cacheGet(p)
  \/ getGuildConfig_storageGet(p)
  \/ getGuildConfig_cacheSet(p)
  \/ getGuildConfig_return(p)
  \/ saveGuildConfig_storageGet(p)
  \/ saveGuildConfig_storageSave(p)
  \/ saveGuildConfig_invalidate(p)
  \/ GetUserStep(p)
  \/ LeaderboardStep(p)
  \/ TrackStep(p)
  \/ Return(p)

NextExpiry == ExpiryStep(1) \/ ClockAdvance \/ CleanupTimer

SpecExpiry == Init /\ [][NextExpiry]_vars

\* getGuildConfig and saveGuildConfig calls, in every interleaving
NextConfig == \E p \in Procs : ConfigStep(p)

SpecConfig == Init /\ [][NextConfig]_vars

\* getUser and updateUser calls, in every interleaving
NextUsers == \E p \in Procs : UserStep(p)

SpecUsers == Init /\ [][NextUsers]_vars

\* getUser calls and calls of the User objects' methods, in every
\* interleaving
NextReads == \E p \in Procs : GetUserStep(p) \/ UserObjectStep(p) \/ Return(p)

SpecReads == Init /\ [][NextReads]_vars

\* the levels the callers set
LevelsSet == 0 .. 3

\* User.setLevel with any of these levels
setLevel(p) ==
  \E g \in DOMAIN guilds : \E u \in DOMAIN heap[guilds[g]].users : \E level \in LevelsSet :
    UserCall(p, "User.setLevel", g, u, User_setLevel(UserObj(g, u), level))

\* User.addXP, by the tracking tick or a caller, and User.setLevel
LevelStep(p) ==
  \/ addXP_start(p)
  \/ addXP_resume(p)
  \/ setLevel(p)
  \/ Return(p)

NextLevel == \E p \in Procs : LevelStep(p)

SpecLevel == Init /\ [][NextLevel]_vars

\* every operation, one call after the other
NextSerial == Step(1)

SpecSerial == Init /\ [][NextSerial]_vars

\* every operation, in every interleaving
Next == (\E p \in Procs : Step(p) \/ invalidateLeaderboards(p)) \/ ClockAdvance \/ CleanupTimer

Spec == Init /\ [][Next]_vars

(***************************************************************************)
(* Properties.                                                             *)
(***************************************************************************)
Entries == cacheManager.cache.cache

\* the fields of the records storage holds
StoredUser(guildId, userId) ==
  LET userData == Storage_getUser(storage, heap, guildId, userId)
  IN  IF userData.ok THEN Some(heap[userData.v]) ELSE Null

StoredConfig(guildId) ==
  IF guildId \in DOMAIN storage THEN Some(heap[storage[guildId].config]) ELSE Null

\* C1: every operation that wrote a guild or user record to storage has,
\* when it returns, made exactly one invalidate* call since its last write.
C1_EveryWriteInvalidates ==
  \A p \in Procs : pc[p] = "done" /\ loc[p].wrote => loc[p].inval = 1

\* C2: a getGuildConfig(g) that starts after a saveGuildConfig(g, c) has
\* returned returns c or a configuration written after c, in every
\* interleaving of the two operations.
C2_NoConfigOlderThanReturnedSave ==
  \A p \in Procs :
    pc[p] = "done" /\ loc[p].op = "getGuildConfig" /\ loc[p].minIdx > 0
    => \E i \in loc[p].minIdx..Len(configWrites[loc[p].guildId]) :
         loc[p].ret = Some(configWrites[loc[p].guildId][i])

\* a read that ran alone, right after `op` had returned for the same guild
ReadAfter(p, read, op) ==
  /\ pc[p] = "done"
  /\ loc[p].op = read
  /\ loc[p].alone
  /\ loc[p].prev.ok
  /\ loc[p].prev.v.op = op
  /\ loc[p].prev.v.guildId = loc[p].guildId

\* C3: a getUser that follows a tracking tick which added voice time or XP
\* to the user returns the user's record as storage holds it after the tick.
C3_GetUserAfterTickIsCurrent ==
  \A p \in Procs :
    ReadAfter(p, "getUser", "trackVoiceActivity") /\ loc[p].prev.v.userId = loc[p].userId
      /\ loc[p].prev.v.gained
    => loc[p].ret = StoredUser(loc[p].guildId, loc[p].userId)

\* C4: when guild.config.edit(options) has returned, the cache holds no
\* guild record of the guild with a configuration other than the edited
\* one, the one storage holds, so that the next getGuildConfig returns the
\* edited configuration.
C4_GetGuildConfigAfterEditIsCurrent ==
  \A p \in Procs :
    /\ pc[p] = "done" /\ loc[p].op = "Config.edit" /\ loc[p].alone
    /\ getGuildKey(loc[p].guildId) \in DOMAIN Entries
    => Some(heap[Entries[getGuildKey(loc[p].guildId)].value.config]) = StoredConfig(loc[p].guildId)

\* C5: the step of updateUser that ends it comes after its storage write,
\* leaves no entry under user:{g}:{u} and returns the record it saved; and
\* a getUser(g, u) that runs alone right after an updateUser(g, u) that ran
\* alone returns the record that updateUser returned, whatever the options.
C5_UpdateUserInvalidates ==
  [][ \A p \in Procs :
        /\ pc[p] = "uu_inval" /\ pc'[p] # "uu_inval"
           => /\ pc'[p] = "done"
              /\ loc[p].wrote
              /\ getUserKey(loc[p].guildId, loc[p].userId) \notin DOMAIN cacheManager'.cache.cache
              /\ loc'[p].ret = Some(heap[loc[p].userData])
        /\ (ReadAfter(p, "getUser", "updateUser") /\ loc[p].prev.v.userId = loc[p].userId)'
           => (loc[p].ret = loc[p].prev.v.ret)' ]_vars

\* an updateUser removed the cached record, and the getUser after it missed
C5_Witness ==
  \E p \in Procs :
    /\ ReadAfter(p, "getUser", "updateUser")
    /\ loc[p].prev.v.userId = loc[p].userId
    /\ loc[p].prev.v.removed # {}
    /\ ~loc[p].hit
    /\ loc[p].ret = loc[p].prev.v.ret

CurrentPage(l) == Some(Storage_getLeaderboard(storage, heap, l.guildId, l.sortBy, l.limit, l.offset))

\* the key of a getLeaderboard call
PageKey(l) == getLeaderboardKey(l.guildId, l.sortBy, l.limit, l.offset)

\* the pages invalidateLeaderboards covers
CommonPage(l) ==
  l.sortBy \in {"voiceTime", "xp", "level"} /\ l.limit \in {10, 25, 50, 100} /\ l.offset = 0

TwelveKeys(g) ==
  { getLeaderboardKey(g, sort, limit, 0) :
      sort \in {"voiceTime", "xp", "level"}, limit \in {10, 25, 50, 100} }

\* C8: invalidateLeaderboards(g) makes exactly 12 deletes, of the keys
\* leaderboard:{g}:{sort}:{limit}:0, whatever the cache holds, and every
\* other entry stays as it was.
C8_FanOutOfTwelve ==
  \A p \in Procs :
    pc[p] = "done" /\ loc[p].op = "invalidateLeaderboards"
    => LET before == loc[p].before
           after == cacheManager.cache
           keys == TwelveKeys(loc[p].guildId)
       IN  /\ Cardinality(keys) = 12
           /\ after.stats.deletes = before.stats.deletes + 12
           /\ DOMAIN after.cache = (DOMAIN before.cache) \ keys
           /\ \A k \in DOMAIN after.cache : after.cache[k] = before.cache[k]
           /\ DOMAIN after.accessOrder = (DOMAIN before.accessOrder) \ keys
           /\ \A k \in DOMAIN after.accessOrder : after.accessOrder[k] = before.accessOrder[k]

\* the call found every kind of entry: three of its pages went, five stayed
C8_Witness ==
  \E p \in Procs :
    /\ pc[p] = "done" /\ loc[p].op = "invalidateLeaderboards" /\ loc[p].guildId = "g1"
    /\ Cardinality(DOMAIN loc[p].before.cache) = Len(FanOutEntries)
    /\ Cardinality(DOMAIN Entries) = Len(FanOutEntries) - 3

\* the TTL an entry is stored with
TtlOf(key) == IF key \in LeaderboardKeys(cacheManager) THEN LeaderboardTtl ELSE ConfiguredTtl

CacheGetSteps == {"ggc_get", "gu_get", "gl_get"}

\* what storage holds for a read
Stored(l) ==
  IF l.op = "getGuildConfig" THEN StoredConfig(l.guildId)
  ELSE IF l.op = "getUser" THEN StoredUser(l.guildId, l.userId)
  ELSE CurrentPage(l)

\* C9: every entry expires at most its TTL from now; a cache read changes
\* no entry it leaves in the cache (a hit does not extend expiresAt); and a
\* read that finds its entry past expiresAt misses and returns what storage
\* holds.
C9_ServedAtMostTtl ==
  [][ /\ \A k \in DOMAIN cacheManager'.cache.cache :
           cacheManager'.cache.cache[k].expiresAt <= now' + TtlOf(k)'
      /\ \A p \in Procs :
           /\ pc[p] \in CacheGetSteps /\ pc'[p] # pc[p]
              => \A k \in (DOMAIN Entries) \cap (DOMAIN cacheManager'.cache.cache) :
                   cacheManager'.cache.cache[k] = Entries[k]
           /\ (pc[p] = "done" /\ loc[p].op \in {"getGuildConfig", "getUser", "getLeaderboard"}
                 /\ loc[p].sawExpired)'
              => (~loc[p].hit /\ loc[p].ret = Stored(loc[p]))' ]_vars

\* a read found its entry expired and went to storage
C9_Witness ==
  \E p \in Procs :
    /\ pc[p] = "done" /\ loc[p].op \in {"getGuildConfig", "getUser", "getLeaderboard"}
    /\ loc[p].sawExpired /\ ~loc[p].hit
    /\ loc[p].ret = Stored(loc[p])
    /\ loc[p].ret.ok

\* C11: no CacheManager operation throws to its caller when the adapter
\* method it reaches throws, and getGuild, getUser and getLeaderboard then
\* return absent.
C11_NoAdapterExceptionReachesCaller ==
  \A p \in Procs :
    pc[p] = "done" /\ loc[p].op \in CoordinatorOps /\ loc[p].faulted
    => /\ ~loc[p].threw
       /\ loc[p].op \in {"getGuild", "getUser", "getLeaderboard"} => ~loc[p].ret.ok

\* C12: every operation of a CacheManager constructed without an adapter
\* returns absent (getStats: null), does not throw (a method called on the
\* missing adapter would) and leaves the manager as it was.
C12_DisabledIsTransparent ==
  \A p \in Procs :
    pc[p] = "done" /\ loc[p].op \in CoordinatorOps /\ ~loc[p].before.enabled
    => /\ ~loc[p].threw
       /\ ~loc[p].ret.ok
       /\ cacheManager = loc[p].before

C12_Witness ==
  \E p \in Procs :
    /\ pc[p] = "done" /\ loc[p].op = "getStats" /\ ~loc[p].before.enabled
    /\ ~loc[p].ret.ok /\ ~loc[p].threw
    /\ opsLeft = 0

\* the MemoryCache: its access order, its statistics, its configuration
AccessOrder == cacheManager.cache.accessOrder
Stats == cacheManager.cache.stats
EngineConfig == cacheManager.cache.config

\* this step is a call of the MemoryCache method op
Called(op) == opsLeft' = opsLeft - 1 /\ lastDone'.ok /\ lastDone'.v.op = op

\* C13: a get that comes later than t after a set(k, v, t) with a per-call
\* ttl t (0 and negative t included) returns absent.
C13_PerCallTtlDecidesExpiry ==
  lastDone.ok /\ lastDone.v.op = "get" /\ lastDone.v.ret.ok /\ lastDone.v.ret.v.ttl.ok
  => ~(lastDone.v.at > lastDone.v.ret.v.at + lastDone.v.ret.v.ttl.v)

\* C14: a get returns the stored value only while now < expiresAt; at every
\* time with now >= expiresAt it returns absent and removes the entry.
C14_VisibleOnlyBeforeExpiresAt ==
  [][ Called("get") /\ lastDone'.v.key \in DOMAIN Entries
      => LET key == lastDone'.v.key
         IN  /\ lastDone'.v.ret.ok => now < Entries[key].expiresAt
             /\ now >= Entries[key].expiresAt
                => ~lastDone'.v.ret.ok /\ key \notin DOMAIN Entries' ]_vars

\* C15: a set that inserts a new key into a store at capacity removes
\* exactly one key, the one with the smallest access-order counter.
C15_EvictsLeastRecentlyUsed ==
  [][ /\ Called("set")
      /\ lastDone'.v.key \notin DOMAIN Entries
      /\ Cardinality(DOMAIN Entries) >= EngineConfig.maxSize
      => \E oldest \in DOMAIN Entries :
           /\ \A k \in DOMAIN Entries : AccessOrder[oldest] <= AccessOrder[k]
           /\ DOMAIN Entries' = (DOMAIN Entries \ {oldest}) \cup {lastDone'.v.key} ]_vars

\* C16: the number of entries never exceeds maxSize.
C16_SizeAtMostMaxSize == Cardinality(DOMAIN Entries) <= EngineConfig.maxSize

\* C17: a set on a key that is in the store removes no key and changes the
\* entry and the access order of no other key, also at capacity.
C17_OverwriteEvictsNothing ==
  [][ Called("set") /\ lastDone'.v.key \in DOMAIN Entries
      => /\ DOMAIN Entries' = DOMAIN Entries
         /\ DOMAIN AccessOrder' = DOMAIN AccessOrder
         /\ \A k \in DOMAIN Entries \ {lastDone'.v.key} :
              Entries'[k] = Entries[k] /\ AccessOrder'[k] = AccessOrder[k] ]_vars

\* an overwrite of one of two keys of a store at capacity has happened
C17_Witness ==
  /\ lastDone.ok /\ lastDone.v.op = "set"
  /\ opsLeft = MaxCalls - 3
  /\ EngineConfig.maxSize = 2
  /\ Cardinality(DOMAIN Entries) = 2
  /\ Stats.sets = 3

\* hitRate = hits / (hits + misses), 0 while there was no get
HitRateIsRatio(stats) ==
  IF stats.hits + stats.misses = 0 THEN stats.hitRate.num = 0
  ELSE stats.hitRate.num * (stats.hits + stats.misses) = stats.hits * stats.hitRate.den

\* C18: with statistics enabled, a get adds 1 to hits when it returns a
\* value and 1 to misses when it returns absent, and leaves the other of
\* the two; no other step changes hits or misses; hitRate is always
\* hits / (hits + misses), also in the copy getStats returns.
C18_HitMissAccounting ==
  [][ EngineConfig.enableStats
      => /\ Called("get") /\ lastDone'.v.ret.ok
            => Stats'.hits = Stats.hits + 1 /\ Stats'.misses = Stats.misses
         /\ Called("get") /\ ~lastDone'.v.ret.ok
            => Stats'.hits = Stats.hits /\ Stats'.misses = Stats.misses + 1
         /\ ~Called("get")
            => Stats'.hits = Stats.hits /\ Stats'.misses = Stats.misses
         /\ HitRateIsRatio(Stats) /\ HitRateIsRatio(Stats')
         /\ Called("getStats") => HitRateIsRatio(lastDone'.v.ret.v.fields) ]_vars

\* a hit and two misses have been counted
C18_Witness ==
  /\ EngineConfig.enableStats
  /\ Stats.hits = 1 /\ Stats.misses = 2
  /\ lastDone.ok /\ lastDone.v.op = "get"

\* this step is a call of a CacheManager invalidate* method; the keys it
\* deletes
Invalidating == pc[1] = "idle" /\ pc'[1] = "done" /\ loc'[1].op \in {"invalidateGuild", "invalidateUser", "invalidateLeaderboards"}

InvalidatedKeys(l) ==
  IF l.op = "invalidateGuild" THEN {getGuildKey(l.guildId)}
  ELSE IF l.op = "invalidateUser" THEN {getUserKey(l.guildId, u) : u \in Users}
  ELSE Range(LeaderboardPermutations(l.guildId))

\* C19: a delete of a key that is not in the store changes no entry and
\* adds 1 to the deletes counter; an invalidate* call on keys that are not
\* in the store does not throw and changes no entry.
C19_DeleteOfAbsentKeyCounts ==
  [][ /\ Called("delete") /\ lastDone'.v.key \notin DOMAIN Entries
         => /\ Entries' = Entries
            /\ AccessOrder' = AccessOrder
            /\ Stats'.deletes = Stats.deletes + 1
      /\ Invalidating /\ InvalidatedKeys(loc'[1]) \cap DOMAIN Entries = {}
         => /\ ~loc'[1].threw
            /\ Entries' = Entries
            /\ AccessOrder' = AccessOrder ]_vars

\* C19, amended: the deletes counter grows by 1 when statistics are
\* enabled.
C19_DeleteOfAbsentKeyCountsWithStats ==
  [][ /\ Called("delete") /\ lastDone'.v.key \notin DOMAIN Entries
         => /\ Entries' = Entries
            /\ AccessOrder' = AccessOrder
            /\ EngineConfig.enableStats => Stats'.deletes = Stats.deletes + 1
      /\ Invalidating /\ InvalidatedKeys(loc'[1]) \cap DOMAIN Entries = {}
         => /\ ~loc'[1].threw
            /\ Entries' = Entries
            /\ AccessOrder' = AccessOrder ]_vars

\* a key that is not in the store has been deleted and counted, and an
\* invalidateUser of a user that was not cached has returned
C19_Witness ==
  /\ lastDone.ok /\ lastDone.v.op = "invalidateUser"
  /\ pc[1] = "done"
  /\ EngineConfig.enableStats
  /\ Stats.deletes = 2 /\ Stats.sets = 1
  /\ DOMAIN Entries = {"a"}

\* C20: an init() leaves a single sweep timer, and a close() leaves none,
\* so that no sweep runs after it.
C20_CloseStopsEverySweep ==
  [][ /\ Called("init") => Cardinality(cacheManager'.cache.timers) = 1
      /\ Called("close") => cacheManager'.cache.timers = {} ]_vars

\* C21: a close() that comes before any init(), or right after another
\* close(), leaves no entry in the store and no sweep timer running.
C21_CloseIsSafeTeardown ==
  [][ /\ Called("close")
      /\ cacheManager.cache.timerSeq = 0 \/ (lastDone.ok /\ lastDone.v.op = "close")
      => /\ DOMAIN Entries' = {}
         /\ DOMAIN AccessOrder' = {}
         /\ cacheManager'.cache.timers = {} ]_vars

\* C22: clear() removes every entry, resets the access-order counter and
\* leaves the hits, misses, sets and deletes counters as they were.
C22_ClearKeepsCounters ==
  [][ Called("clear")
      => /\ DOMAIN Entries' = {}
         /\ DOMAIN AccessOrder' = {}
         /\ cacheManager'.cache.accessCounter = 0
         /\ Stats'.hits = Stats.hits /\ Stats'.misses = Stats.misses
         /\ Stats'.sets = Stats.sets /\ Stats'.deletes = Stats.deletes ]_vars

\* a store with counted sets and a counted hit has been cleared
C22_Witness ==
  /\ lastDone.ok /\ lastDone.v.op = "clear"
  /\ EngineConfig.enableStats
  /\ Stats.sets = 2 /\ Stats.hits = 1
  /\ DOMAIN Entries = {}
  /\ cacheManager.cache.accessCounter = 0

\* C23: has(k) returns true exactly when a get(k) would return a value (k is
\* stored and the expiry test of get does not find it expired); it removes k
\* when it finds it expired, changes no other entry, and changes neither
\* hits, misses, hitRate nor the access order of a key that stays.
C23_HasIsAnUncountedLookup ==
  [][ Called("has")
      => LET key == lastDone'.v.key
             found == MemoryCache_get(cacheManager.cache, key, now).ret.ok
             left == IF found THEN DOMAIN Entries ELSE DOMAIN Entries \ {key}
         IN  /\ lastDone'.v.ret.v = found
             /\ DOMAIN Entries' = left
             /\ DOMAIN AccessOrder' = left
             /\ \A k \in left : Entries'[k] = Entries[k] /\ AccessOrder'[k] = AccessOrder[k]
             /\ cacheManager'.cache.accessCounter = cacheManager.cache.accessCounter
             /\ Stats'.hits = Stats.hits /\ Stats'.misses = Stats.misses
             /\ Stats'.hitRate = Stats.hitRate ]_vars

\* a has has found the one key of the store expired and has removed it
C23_Witness ==
  /\ lastDone.ok /\ lastDone.v.op = "has" /\ lastDone.v.ret.v = FALSE
  /\ opsLeft = MaxCalls - 2
  /\ EngineConfig.enableStats
  /\ Stats.sets = 1 /\ Stats.misses = 0
  /\ DOMAIN Entries = {}

\* C29: with statistics enabled, the size the statistics report is the
\* number of entries stored.
C29_SizeIsNumberOfEntries ==
  EngineConfig.enableStats => Stats.size = Cardinality(DOMAIN Entries)

\* C32: getUser returns the cached record and reads no storage when its
\* key is in the cache and not past expiresAt, and goes on to storage
\* otherwise; the storage read changes no cache and, when storage has no
\* such user, returns absent at once; otherwise the record storage gave is
\* cached under the key and returned.
C32_GetUserReadsThrough ==
  [][ \A p \in Procs :
        LET l == loc[p]
            key == "user:" \o l.guildId \o ":" \o l.userId
        IN  /\ pc[p] = "gu_get" /\ pc'[p] # pc[p]
               => IF key \in DOMAIN Entries /\ now <= Entries[key].expiresAt
                  THEN /\ pc'[p] = "done"
                       /\ loc'[p].ret = Some(heap[Entries[key].value])
                       /\ storage' = storage
                  ELSE pc'[p] = "gu_read"
            /\ pc[p] = "gu_read" /\ pc'[p] # pc[p]
               => /\ cacheManager' = cacheManager
                  /\ storage' = storage
                  /\ IF l.guildId \in DOMAIN storage /\ l.userId \in DOMAIN heap[storage[l.guildId].users]
                     THEN pc'[p] = "gu_set" /\ loc'[p].userData = heap[storage[l.guildId].users][l.userId]
                     ELSE pc'[p] = "done" /\ loc'[p].ret = Null
            /\ pc[p] = "gu_set" /\ pc'[p] # pc[p]
               => /\ pc'[p] = "done"
                  /\ key \in DOMAIN Entries'
                  /\ Entries'[key].value = l.userData
                  /\ loc'[p].ret = Some(heap'[l.userData])
                  /\ storage' = storage ]_vars

\* a getUser has returned the cached record at a later time than the
\* record was cached
C32_Witness ==
  /\ pc[1] = "done" /\ loc[1].op = "getUser"
  /\ loc[1].hit /\ loc[1].ret.ok
  /\ now = CleanupPeriod
  /\ Entries[getUserKey(loc[1].guildId, loc[1].userId)].expiresAt = ConfiguredTtl

\* the key of the page a getLeaderboard call asks for: leaderboard:{g}:
\* {sortBy}:{limit}:{offset}, with xp, 10 and 0 for the options not given
OptionsKey(l) ==
  "leaderboard:" \o l.guildId
  \o ":" \o (IF "sortBy" \in DOMAIN l.options THEN l.options.sortBy ELSE "xp")
  \o ":" \o (IF "limit" \in DOMAIN l.options THEN ToString(l.options.limit) ELSE "10")
  \o ":" \o (IF "offset" \in DOMAIN l.options THEN ToString(l.options.offset) ELSE "0")

\* C33: the storage read of getLeaderboard changes no cache and returns
\* an empty page at once; a page that is not empty is cached under the key
\* of the call and returned, and no other entry is added; no page in the
\* cache is empty.
C33_OnlyNonEmptyPagesCached ==
  [][ /\ \A p \in Procs :
           LET l == loc[p]
           IN  /\ pc[p] = "gl_read" /\ pc'[p] # pc[p]
                  => /\ cacheManager' = cacheManager
                     /\ loc'[p].data = CurrentPage(l)
                     /\ IF CurrentPage(l).v = <<>>
                        THEN pc'[p] = "done" /\ loc'[p].ret = Some(<<>>)
                        ELSE pc'[p] = "gl_set"
               /\ pc[p] = "gl_set" /\ pc'[p] # pc[p]
                  => /\ pc'[p] = "done"
                     /\ DOMAIN Entries' = DOMAIN Entries \cup {OptionsKey(l)}
                     /\ Entries'[OptionsKey(l)].value = l.data.v
                     /\ loc'[p].ret = l.data
      /\ \A k \in LeaderboardKeys(cacheManager)' : Entries'[k].value # <<>> ]_vars

\* a getLeaderboard with a limit of 5 has cached the page it returned
C33_Witness ==
  /\ pc[1] = "done" /\ loc[1].op = "getLeaderboard"
  /\ loc[1].options = [limit |-> 5]
  /\ "wroteBack" \in DOMAIN loc[1]
  /\ "leaderboard:g1:xp:5:0" \in DOMAIN Entries
  /\ Entries["leaderboard:g1:xp:5:0"].value = loc[1].ret.v
  /\ loc[1].ret.v # <<>>

\* the users Map of the guild a getGuild call has returned a snapshot of
UsersOf(guildId) == FanOutObjects[GuildDataFor(guildId).users]

C36_NoTickAfterDestroy ==
  [][ (\E q \in Procs : pc[q] = "done" /\ loc[q].op = "destroy")
      => /\ storage' = storage
         /\ cacheManager' = cacheManager
         /\ \A p \in Procs : pc[p] \in {"ggc_get", "sgc_inval", "pm_inval"} => pc'[p] = pc[p] ]_vars

\* C37: the record a user entry of the cache holds, which is what a later
\* getUser returns from the cache, changes in no step that does not write
\* the entry.
C37_CacheHoldsASnapshot ==
  [][ \A key \in (DOMAIN Entries) \cap (DOMAIN cacheManager'.cache.cache) \cap UserKeys :
        cacheManager'.cache.cache[key] = Entries[key]
        => heap'[Entries[key].value] = heap[Entries[key].value] ]_vars

\* the strategy a call is to use: the one registered under the name the
\* configuration gives, else the one registered as 'fixed'
StrategyUsed(l) ==
  IF "xpStrategy" \in DOMAIN l.data /\ l.data.xpStrategy \in DOMAIN l.xpStrategies
  THEN l.xpStrategies[l.data.xpStrategy]
  ELSE l.xpStrategies["fixed"]

\* a value that is a number and not negative
NonNegative(v) == v.type = "number" /\ ~v.nan /\ v.n >= 0

\* C38: getXpToAdd does not throw and returns a number that is not
\* negative; it uses the strategy of the configured name, or 'fixed' when
\* no strategy of that name is registered; when that strategy throws or
\* returns a negative or non-numeric value the result is 5, and otherwise
\* what it returned.
C38_XpToAddIsNonNegative ==
  loc[1].op = "getXpToAdd"
  => LET l == loc[1]
         used == StrategyUsed(l)
     IN  /\ ~l.ret.threw
         /\ NonNegative(l.ret.v)
         /\ used.kind = "custom"
            => IF ~used.outcome.threw /\ NonNegative(used.outcome.v)
               THEN l.ret.v = used.outcome.v
               ELSE l.ret.v = Number(5)
         /\ used.kind = "fixed"
            => l.ret.v \in {Number(5), Number(ConfiguredXp)}

\* a name that is not registered fell back to a 'fixed' that throws
C38_Witness ==
  /\ loc[1].op = "getXpToAdd"
  /\ "xpStrategy" \in DOMAIN loc[1].data /\ loc[1].data.xpStrategy = "unknown"
  /\ StrategyUsed(loc[1]) = [kind |-> "custom", outcome |-> Throws]
  /\ loc[1].ret = Gives(Number(5))

\* C39: a call of User.addXP that returns leaves the level of the user not
\* lower than it was when the call resumed to set it, and returns true
\* exactly when it left it higher.
C39_AddXPNeverLowersLevel ==
  [][ \A p \in Procs :
        pc[p] = "ax_mult" /\ pc'[p] = "done"
        => LET before == UserObj(loc[p].guildId, loc[p].userId).level
               after == heap'[guilds[loc[p].guildId]].users[loc[p].userId].level
           IN  /\ after >= before
               /\ loc'[p].ret.v <=> after > before ]_vars

\* a pass of the periodic sweep: the cache changes, no call is made and
\* the clock stands
Swept == cacheManager' # cacheManager /\ opsLeft' = opsLeft /\ now' = now

\* C31: a pass of the sweep removes from the cache and from the access
\* order exactly the keys of the entries with now > expiresAt, leaves every
\* other entry and its access order as they were, and leaves hits, misses,
\* sets and deletes as they were.
C31_SweepRemovesExactlyExpired ==
  [][ Swept
      => LET expired == {k \in DOMAIN Entries : now > Entries[k].expiresAt}
         IN  /\ DOMAIN Entries' = DOMAIN Entries \ expired
             /\ DOMAIN AccessOrder' = DOMAIN AccessOrder \ expired
             /\ \A k \in DOMAIN Entries \ expired : Entries'[k] = Entries[k]
             /\ \A k \in DOMAIN AccessOrder \ expired : AccessOrder'[k] = AccessOrder[k]
             /\ cacheManager'.cache.accessCounter = cacheManager.cache.accessCounter
             /\ Stats'.hits = Stats.hits /\ Stats'.misses = Stats.misses
             /\ Stats'.sets = Stats.sets /\ Stats'.deletes = Stats.deletes ]_vars

\* three calls were made, init and two sets the second of which was of
\* "b"; "b" has expired and a pass of the sweep has removed it, "a" is kept
C31_Witness ==
  /\ opsLeft = MaxCalls - 3
  /\ cacheManager.cache.timers # {}
  /\ EngineConfig.enableStats /\ EngineConfig.maxSize = 2
  /\ Stats.sets = 2 /\ Stats.size = 1 /\ Stats.misses = 0 /\ Stats.deletes = 0
  /\ lastDone.ok /\ lastDone.v.op = "set" /\ lastDone.v.key = "b"
  /\ DOMAIN Entries = {"a"} /\ DOMAIN AccessOrder = {"a"}

\* C35: the access-order counters of the keys in the cache are pairwise
\* distinct, so that the least recently used key is one key.
C35_AccessOrderIsDistinct ==
  \A j \in DOMAIN Entries \cap DOMAIN AccessOrder, k \in DOMAIN Entries \cap DOMAIN AccessOrder :
    AccessOrder[j] = AccessOrder[k] => j = k

\* two keys are in the cache, set after a clear that has reset the counter
C35_Witness ==
  /\ Cardinality(DOMAIN Entries) = 2
  /\ cacheManager.cache.accessCounter = 2
  /\ opsLeft = MaxCalls - 4
  /\ EngineConfig.enableStats /\ Stats.sets = 3

\* C40: the keys of the access order are the keys of the cache.
C40_LedgerKeysAreStoreKeys == DOMAIN AccessOrder = DOMAIN Entries

\* an entry has expired and a pass of the sweep has removed it, the other
\* entry was read and is kept
C40_Witness ==
  /\ opsLeft = MaxCalls - 4
  /\ cacheManager.cache.timers # {}
  /\ EngineConfig.enableStats /\ EngineConfig.maxSize = 2
  /\ Stats.sets = 2 /\ Stats.hits = 1 /\ Stats.size = 1 /\ Stats.deletes = 0
  /\ lastDone.ok /\ lastDone.v.op = "get" /\ lastDone.v.key = "a"
  /\ DOMAIN Entries = {"a"}
  /\ now > 0

\* a call of the CacheManager returns in this step
Returns(op) == pc[1] = "idle" /\ pc'[1] = "done" /\ loc'[1].op = op

\* C24: getGuild of a guild whose snapshot setGuild has cached, the entry
\* not expired, returns a snapshot whose users Map has the keys of the
\* users Map of the snapshot given to setGuild, each with the same UserData
\* fields, and whose lastUpdated is the same instant.
C24_GuildRoundTrip ==
  [][ /\ Returns("getGuild")
      /\ loc'[1].key \in DOMAIN Entries
      /\ now <= Entries[loc'[1].key].expiresAt
      => LET s == GuildDataFor(loc'[1].guildId)
             users == RoundTripObjects[s.users]
             ret == loc'[1].ret
         IN  /\ ret.ok
             /\ DOMAIN ret.v.users = DOMAIN users
             /\ \A userId \in DOMAIN users \cap DOMAIN ret.v.users :
                  heap'[ret.v.users[userId]] = RoundTripObjects[users[userId]]
             /\ ret.v.lastUpdated.time = s.lastUpdated.time ]_vars

\* C26: two entities that get the same cache key are the same entity,
\* whatever strings their ids are and whatever their families.
C26_KeysAreInjective ==
  loc[1].op = "keys" /\ loc[1].keyA = loc[1].keyB => loc[1].a = loc[1].b

\* the handler of the event emitted last
LastHandler == CHOOSE p \in Procs : pc[p] # "idle" /\ \A q \in Procs : pc[q] # "idle" => q <= p

\* C30: when the handlers of all the events of the member have finished,
\* activeSessions has an entry of the member exactly if the last event
\* left the member in a channel, and the entry is the session the handler
\* of that event (the latest join or change of channel) started.
C30_SessionFollowsLastEvent ==
  /\ pc[1] = "done"
  /\ \A p \in Procs : ~Pending(p)
  => /\ VoiceKey \in DOMAIN activeSessions <=> loc[LastHandler].channel # ""
     /\ loc[LastHandler].channel # "" /\ VoiceKey \in DOMAIN activeSessions
        => activeSessions[VoiceKey] = loc[LastHandler].started

\* C25, as stated: an entry setGuild or setUser writes without a ttl
\* expires DefaultTtl after the write and one setLeaderboard writes without
\* a ttl expires LeaderboardTtl after the write, whatever ttl the
\* MemoryCache was made with.
C25_FixedDefaultTtls ==
  [][ /\ (Returns("setGuild") \/ Returns("setUser")) /\ loc'[1].ttl = Undefined
         => Entries'[loc'[1].key].expiresAt = now + DefaultTtl
      /\ Returns("setLeaderboard") /\ loc'[1].ttl = Undefined
         => Entries'[loc'[1].key].expiresAt = now + LeaderboardTtl ]_vars

\* C25, amended: an entry setGuild or setUser writes without a ttl expires
\* after the default ttl the MemoryCache was made with (DefaultTtl when it
\* was made without one); an entry setLeaderboard writes without a ttl
\* expires LeaderboardTtl after the write, whatever ttl the MemoryCache was
\* made with.
C25_DefaultTtls ==
  [][ /\ (Returns("setGuild") \/ Returns("setUser")) /\ loc'[1].ttl = Undefined
         => Entries'[loc'[1].key].expiresAt = now + EngineConfig.ttl
      /\ Returns("setLeaderboard") /\ loc'[1].ttl = Undefined
         => Entries'[loc'[1].key].expiresAt = now + LeaderboardTtl ]_vars

\* the MemoryCache was made with ConfiguredTtl; a guild, a user and a
\* leaderboard page were written without a ttl at different times
C25_Witness ==
  /\ EngineConfig.ttl = ConfiguredTtl
  /\ now = 2 * CleanupPeriod
  /\ getGuildKey("g1") \in DOMAIN Entries
  /\ Entries[getGuildKey("g1")].expiresAt = ConfiguredTtl
  /\ getUserKey("g1", "u1") \in DOMAIN Entries
  /\ Entries[getUserKey("g1", "u1")].expiresAt = CleanupPeriod + ConfiguredTtl
  /\ getLeaderboardKey("g1", "xp", DefaultLimit, 0) \in DOMAIN Entries
  /\ Entries[getLeaderboardKey("g1", "xp", DefaultLimit, 0)].expiresAt = 2 * CleanupPeriod + LeaderboardTtl

\* get applied to each key of a list in turn
RECURSIVE GetInTurn(_, _, _)
GetInTurn(mc, keys, t) ==
  IF keys = <<>> THEN [mc |-> mc, ret |-> <<>>]
  ELSE LET r == MemoryCache_get(mc, Head(keys), t)
           rest == GetInTurn(r.mc, Tail(keys), t)
       IN  [mc |-> rest.mc, ret |-> <<r.ret>> \o rest.ret]

\* set applied to each entry of a list in turn
RECURSIVE SetInTurn(_, _, _, _)
SetInTurn(mc, entries, ttl, t) ==
  IF entries = <<>> THEN mc
  ELSE SetInTurn(MemoryCache_set(mc, Head(entries)[1], Head(entries)[2], ttl, t), Tail(entries), ttl, t)

\* C27: mget(keys) returns what get applied to each key in turn returns and
\* leaves the cache (entries, access order, statistics) as those gets
\* leave it; mset(entries, ttl) leaves the cache as set applied to each
\* entry in turn with that ttl leaves it.
C27_BatchIsElementWise ==
  [][ /\ Called("mget")
         => LET r == GetInTurn(cacheManager.cache, lastDone'.v.key, now)
            IN  lastDone'.v.ret.v = r.ret /\ cacheManager'.cache = r.mc
      /\ Called("mset")
         => LET ttl == lastDone'.v.ret.v
            IN  cacheManager'.cache = SetInTurn(cacheManager.cache, lastDone'.v.key,
                                                IF ttl.ok THEN ttl.v ELSE Undefined, now) ]_vars

\* an mget of two keys has hit one and found the other expired, after an
\* mset with a ttl
C27_Witness ==
  /\ lastDone.ok /\ lastDone.v.op = "mget" /\ Len(lastDone.v.key) = 2
  /\ lastDone.v.ret.v[1].ok /\ ~lastDone.v.ret.v[2].ok
  /\ EngineConfig.enableStats
  /\ Stats.sets = 2 /\ Stats.hits = 1 /\ Stats.misses = 1
  /\ now > 0

\* what the caller reads from an object it holds
Read(object) == IF object.own THEN object.fields ELSE Stats

\* C28: getStats changes nothing in the cache and returns the statistics
\* of that moment; what the caller reads from the returned object stays
\* the same whatever is done with the cache; a write of the caller to the
\* returned object changes nothing in the cache.
C28_GetStatsReturnsACopy ==
  [][ /\ Called("getStats")
         => cacheManager' = cacheManager /\ lastDone'.v.ret.v.fields = Stats
      /\ "snapshot" \in DOMAIN loc[1] /\ loc'[1] = loc[1]
         => Read(loc[1].snapshot)' = Read(loc[1].snapshot)
      /\ "snapshot" \in DOMAIN loc[1] /\ loc'[1] # loc[1]
         => cacheManager' = cacheManager ]_vars

\* the caller holds a snapshot it has written to, and the cache has counted
\* a set since the snapshot was taken
C28_Witness ==
  /\ "edited" \in DOMAIN loc[1]
  /\ EngineConfig.enableStats
  /\ loc[1].taken.sets = 1
  /\ Stats.sets = 2
  /\ Stats.hits = 0

\* C10: when a getUser that missed writes its result back to the cache
\* while another getUser of the same user that also missed is or was pending
\* with it, and no other operation is pending, the entry it leaves equals
\* the record in storage.
C10_ConcurrentMissesLeaveStoredValue ==
  [][ \A p \in Procs :
        /\ pc[p] = "gu_set" /\ pc'[p] # "gu_set"
        /\ \E q \in Procs \ {p} :
             /\ pc[q] \in GetUserSteps \cup {"done"} /\ loc[q].op = "getUser"
             /\ loc[q].userId = loc[p].userId
             /\ p \in loc[q].conc \/ q \in loc[p].conc
             /\ "hit" \in DOMAIN loc[q] /\ ~loc[q].hit
        /\ \A q \in Procs \ {p} : pc[q] \in GetUserSteps \cup {"idle", "done"}
        => (Some(heap[Entries[getUserKey(loc[p].guildId, loc[p].userId)].value])
              = StoredUser(loc[p].guildId, loc[p].userId))' ]_vars

====
